---- MODULE Spec2Model ----
(***************************************************************************)
(* A model of the FTP client of hwfy/ftp: the control session (connect,    *)
(* feature negotiation, login, teardown), the data channel broker          *)
(* (EPSV with permanent fallback to PASV), and the transfer operations     *)
(* that use a data connection (NameList, RetrFrom, StorFrom, and the       *)
(* wrappers Delete and Upload).  The functions of the broker, and feat,    *)
(* are also applied on their own to families of reply bodies (SpecPort,    *)
(* SpecFeat).                                                              *)
(*                                                                         *)
(* Strings of the program are sequences of one-character strings, so that  *)
(* strings.Index, strings.LastIndex, strings.Split, slicing and            *)
(* strconv.Atoi are computed as Go computes them.  Indices are 0-based as  *)
(* in Go; the character at Go index i of s is s[i+1].                      *)
(*                                                                         *)
(* The server and the network are the environment: every control reply,    *)
(* every dial and every read or write on a socket is an input chosen       *)
(* from a small set.                                                       *)
(***************************************************************************)
EXTENDS Integers, Sequences, FiniteSets, TLC

VARIABLES
  conn,      \* client.conn, the control socket: "nil", "open" or "closed"
  host,      \* client.host, the address resolved when the session was dialed
  mlst,      \* client.mlst
  unepsv,    \* client.unepsv
  features,  \* client.features: a function from capability names to parameters
  op,        \* the caller-facing operation in progress, "idle" when none
  pc,        \* the position inside that operation
  offset,    \* the resume offset the operation was called with
  dconn,     \* the operation's data connection: "none", "open" or "closed"
  lines,     \* the lines the operation has read from its data connection
  entries,   \* the entries a listing operation has collected
  stream,    \* the response handed to the caller of Retr, and the calls made on it
  nops,      \* operations started in this session that use a data connection
  log,       \* history: the events of the operation in progress
  ret,       \* history: what the operation returned
  dials,     \* history: every data connection dial of the session
  pin,       \* input of the port-negotiation functions applied on their own
  pout       \* their result

vars == <<conn, host, mlst, unepsv, features, op, pc, offset, dconn,
          lines, entries, stream, nops, log, ret, dials, pin, pout>>

sessionVars == <<conn, host, mlst, unepsv, features>>
callVars == <<op, pc, offset, dconn, lines, entries, stream, nops, log, ret, dials>>
portVars == <<pin, pout>>

----------------------------------------------------------------------------
(* Bounds of the model.                                                    *)

\* Digits of a port field of an EPSV reply.
MaxDigits == 2
\* Lines a listing delivers on the data connection.
MaxLines == 2
\* Calls of Read, and of Close, a caller makes on one download stream.
MaxStreamCalls == 2
\* Operations with a data connection started in one session.
MaxOps == 2

----------------------------------------------------------------------------
(* FTP status codes (status.go).                                           *)

StatusAlreadyOpen == 125
StatusAboutToSend == 150
StatusCommandOK == 200
StatusCommandNotImplemented == 202
StatusSystem == 211
StatusFile == 213
StatusReady == 220
StatusClosingDataConnection == 226
StatusPassiveMode == 227
StatusExtendedPassiveMode == 229
StatusLoggedIn == 230
StatusRequestedFileActionOK == 250
StatusPathCreated == 257
StatusUserOK == 331
StatusRequestFilePending == 350
\* A code no operation of the client expects ("command not recognized").
OtherCodes == {500}
\* "any code", the expected code of cmd and ReadResponse that accepts every reply.
AnyCode == -1

----------------------------------------------------------------------------
(* Go's string functions.                                                  *)

Digit == {"0", "1", "2", "3", "4", "5", "6", "7", "8", "9"}

DigitVal(c) ==
  CASE c = "0" -> 0 [] c = "1" -> 1 [] c = "2" -> 2 [] c = "3" -> 3
    [] c = "4" -> 4 [] c = "5" -> 5 [] c = "6" -> 6 [] c = "7" -> 7
    [] c = "8" -> 8 [] c = "9" -> 9

\* The value of a string of decimal digits.
RECURSIVE DecimalValue(_)
DecimalValue(s) ==
  IF s = <<>> THEN 0
  ELSE 10 * DecimalValue(SubSeq(s, 1, Len(s) - 1)) + DigitVal(s[Len(s)])

\* sub occurs in s at Go index i.
OccursAt(s, sub, i) ==
  /\ i >= 0
  /\ i + Len(sub) <= Len(s)
  /\ SubSeq(s, i + 1, i + Len(sub)) = sub

\* The Go indices at which sub occurs in s.
Occurrences(s, sub) == {i \in 0..Len(s) : OccursAt(s, sub, i)}

\* strings.Index: the index of the first occurrence of sub in s, or -1.
Index(s, sub) ==
  LET at == Occurrences(s, sub)
  IN  IF at = {} THEN -1 ELSE CHOOSE i \in at : \A j \in at : i <= j

\* strings.LastIndex: the index of the last occurrence of sub in s, or -1.
LastIndex(s, sub) ==
  LET at == Occurrences(s, sub)
  IN  IF at = {} THEN -1 ELSE CHOOSE i \in at : \A j \in at : j <= i

\* strings.Contains.
Contains(s, sub) == Index(s, sub) >= 0

\* s[lo:hi] is defined when 0 <= lo <= hi <= len(s); otherwise Go panics with
\* "slice bounds out of range".
SliceInRange(s, lo, hi) == 0 <= lo /\ lo <= hi /\ hi <= Len(s)
Slice(s, lo, hi) == SubSeq(s, lo + 1, hi)

\* strings.Split(s, sep) for a one-character separator: the substrings between
\* the separators, one more than there are separators.
RECURSIVE Split(_, _)
Split(s, sep) ==
  LET i == Index(s, sep)
  IN  IF i = -1 THEN <<s>>
      ELSE <<Slice(s, 0, i)>> \o Split(Slice(s, i + Len(sep), Len(s)), sep)

\* strconv.Atoi: an optional sign followed by at least one decimal digit, and
\* nothing else.  On an error the value is 0.  (The strings of the model are far
\* shorter than the 19 digits at which Atoi reports a range error.)
Atoi(s) ==
  LET signed == s /= <<>> /\ s[1] \in {"+", "-"}
      digits == IF signed THEN SubSeq(s, 2, Len(s)) ELSE s
      ok == digits /= <<>> /\ \A i \in 1..Len(digits) : digits[i] \in Digit
  IN  IF ~ok THEN [ok |-> FALSE, val |-> 0]
      ELSE [ok |-> TRUE,
            val |-> IF signed /\ s[1] = "-" THEN 0 - DecimalValue(digits)
                    ELSE DecimalValue(digits)]

----------------------------------------------------------------------------
(* The events the client causes on its sockets, kept in log.               *)
(*   W v      the command v was written on the control connection          *)
(*   WERR v   writing the command v failed                                 *)
(*   R n      a control reply with code n was read                         *)
(*   RERR     reading a control reply failed                               *)
(*   DIAL n   a data connection to port n was opened                       *)
(*   DIALERR n  dialing port n failed                                      *)
(*   DCLOSE   the data connection was closed                               *)
(*   DREAD, DREADERR, DWRITE, DWRITEERR  reads and writes on it            *)
(*   CLOSE, CLOSEERR  the control socket was closed                        *)
(*   CONNECT, CONNECTERR  the control connection was dialed                *)

Ev(k, c, n) == [k |-> k, c |-> c, n |-> n]

\* A control reply as the transport delivers it: io is "ok" (code and msg are
\* the reply), "werr" (the command could not be written) or "rerr" (no reply
\* could be read).
Reply(code, msg) == [io |-> "ok", code |-> code, msg |-> msg]
WriteFails == [io |-> "werr", code |-> 0, msg |-> <<>>]
ReadFails == [io |-> "rerr", code |-> 0, msg |-> <<>>]

\* The error values: nil, an error of the transport, and the textproto.Error
\* made of a reply's code and message.
NilError == [kind |-> "nil", Code |-> 0, Msg |-> <<>>]
IoError == [kind |-> "io", Code |-> 0, Msg |-> <<>>]
ProtocolError(code, msg) == [kind |-> "textproto.Error", Code |-> code, Msg |-> msg]

\* textproto.Conn.ReadResponse(expected): reads one reply; the error is set when
\* the read fails or when a concrete expected code differs from the reply's.
\* err tells whether there is an error and error is its value.
ReadResponse(expected, rep) ==
  IF rep.io = "rerr"
  THEN [code |-> 0, msg |-> <<>>, err |-> TRUE, error |-> IoError,
        ev |-> <<Ev("RERR", "", 0)>>]
  ELSE [code |-> rep.code, msg |-> rep.msg,
        err |-> (expected /= AnyCode /\ rep.code /= expected),
        error |-> IF expected /= AnyCode /\ rep.code /= expected
                  THEN ProtocolError(rep.code, rep.msg) ELSE NilError,
        ev |-> <<Ev("R", "", rep.code)>>]

\* A faulty cmd, against which the check of the expected code is tested: it
\* accepts a reply of any code.
cmdAnyCode(expected, verb, rep) ==
  IF rep.io = "werr"
  THEN [code |-> 0, msg |-> <<>>, err |-> TRUE, error |-> IoError,
        ev |-> <<Ev("WERR", verb, 0)>>]
  ELSE LET r == ReadResponse(AnyCode, rep)
       IN  [code |-> r.code, msg |-> r.msg, err |-> r.err, error |-> r.error,
            ev |-> <<Ev("W", verb, 0)>> \o r.ev]

\* client.cmd: writes one command and, unless the write failed, reads one reply.
cmd(expected, verb, rep) ==
  IF rep.io = "werr"
  THEN [code |-> 0, msg |-> <<>>, err |-> TRUE, error |-> IoError,
        ev |-> <<Ev("WERR", verb, 0)>>]
  ELSE LET r == ReadResponse(expected, rep)
       IN  [code |-> r.code, msg |-> r.msg, err |-> r.err, error |-> r.error,
            ev |-> <<Ev("W", verb, 0)>> \o r.ev]

----------------------------------------------------------------------------
(* The data channel broker (dataConn.go).  The outcome "out" of a function *)
(* is "ok", "err" (it returned an error) or "panic" (a slice expression    *)
(* with bounds out of range ended the goroutine).                          *)

\* A faulty epsv, against which the port of "(|||N|)" is tested: the slice
\* starts one character early, inside the "|||".
epsvPortShifted(r) ==
  LET start == Index(r.msg, <<"|", "|", "|">>)
      end == LastIndex(r.msg, <<"|">>)
  IN  IF r.err \/ start = -1 \/ end = -1
      THEN [port |-> 0, out |-> "err", ev |-> r.ev]
      ELSE IF ~SliceInRange(r.msg, start + 2, end)
      THEN [port |-> 0, out |-> "panic", ev |-> r.ev]
      ELSE LET port == Atoi(Slice(r.msg, start + 2, end))
           IN  [port |-> port.val, out |-> IF port.ok THEN "ok" ELSE "err",
                ev |-> r.ev]

\* client.epsv once its command is answered by r: the port is the text between
\* the first "|||" and the last "|" of the reply.  The slice expression of the
\* code panics when the last "|" lies before the end of the first "|||".
epsvPort(r) ==
  LET start == Index(r.msg, <<"|", "|", "|">>)
      end == LastIndex(r.msg, <<"|">>)
  IN  IF r.err \/ start = -1 \/ end = -1
      THEN [port |-> 0, out |-> "err", ev |-> r.ev]
      ELSE IF ~SliceInRange(r.msg, start + 3, end)
      THEN [port |-> 0, out |-> "panic", ev |-> r.ev]
      ELSE LET port == Atoi(Slice(r.msg, start + 3, end))
           IN  [port |-> port.val, out |-> IF port.ok THEN "ok" ELSE "err",
                ev |-> r.ev]

\* client.epsv
epsv(rep) == epsvPort(cmd(StatusExtendedPassiveMode, "EPSV", rep))

\* A faulty pasv, against which the port formula is tested: the two port
\* fields are taken in the wrong order.
pasvPortSwapped(r) ==
  LET start == Index(r.msg, <<"(">>)
      end == LastIndex(r.msg, <<")">>)
  IN  IF r.err \/ start = -1 \/ end = -1
      THEN [port |-> 0, out |-> "err", ev |-> r.ev]
      ELSE IF ~SliceInRange(r.msg, start + 1, end)
      THEN [port |-> 0, out |-> "panic", ev |-> r.ev]
      ELSE LET pasvData == Split(Slice(r.msg, start + 1, end), <<",">>)
           IN  IF Len(pasvData) < 6 THEN [port |-> 0, out |-> "err", ev |-> r.ev]
               ELSE LET portPart1 == Atoi(pasvData[5])
                        portPart2 == Atoi(pasvData[6])
                    IN  IF ~portPart1.ok \/ ~portPart2.ok
                        THEN [port |-> 0, out |-> "err", ev |-> r.ev]
                        ELSE [port |-> portPart2.val * 256 + portPart1.val,
                              out |-> "ok", ev |-> r.ev]

\* client.pasv once its command is answered by r: the port is made of the
\* fifth and sixth comma-separated fields between the first "(" and the last
\* ")" of the reply.  The slice expression of the code panics when the last ")"
\* lies before the first "(".
pasvPort(r) ==
  LET start == Index(r.msg, <<"(">>)
      end == LastIndex(r.msg, <<")">>)
  IN  IF r.err \/ start = -1 \/ end = -1
      THEN [port |-> 0, out |-> "err", ev |-> r.ev]
      ELSE IF ~SliceInRange(r.msg, start + 1, end)
      THEN [port |-> 0, out |-> "panic", ev |-> r.ev]
      ELSE LET pasvData == Split(Slice(r.msg, start + 1, end), <<",">>)
           IN  IF Len(pasvData) < 6 THEN [port |-> 0, out |-> "err", ev |-> r.ev]
               ELSE LET portPart1 == Atoi(pasvData[5])
                        portPart2 == Atoi(pasvData[6])
                    IN  IF ~portPart1.ok \/ ~portPart2.ok
                        THEN [port |-> 0, out |-> "err", ev |-> r.ev]
                        ELSE [port |-> portPart1.val * 256 + portPart2.val,
                              out |-> "ok", ev |-> r.ev]

\* client.pasv
pasv(rep) == pasvPort(cmd(StatusPassiveMode, "PASV", rep))

\* client.getDataConnPort once EPSV has failed with the events ev (none when
\* EPSV was not tried): the port of PASV, p, or its error; flag is the new
\* value of client.unepsv.
pasvFallback(flag, ev, p) ==
  [port |-> p.port, out |-> p.out, unepsv |-> flag, ev |-> ev \o p.ev]

\* client.getDataConnPort once EPSV has been tried, with the result e: its
\* port; or, EPSV being disabled from now on, that of PASV.
epsvFirst(flag, e, pr) ==
  CASE e.out = "ok" -> [port |-> e.port, out |-> "ok", unepsv |-> flag, ev |-> e.ev]
    [] e.out = "panic" -> [port |-> 0, out |-> "panic", unepsv |-> flag, ev |-> e.ev]
    [] e.out = "err" -> pasvFallback(TRUE, e.ev, pasv(pr))

\* client.getDataConnPort, called with client.unepsv = flag; er and pr are the
\* server's answers to EPSV and to PASV, should the client ask.
getDataConnPort(flag, er, pr) ==
  IF ~flag THEN epsvFirst(flag, epsv(er), pr)
  ELSE pasvFallback(flag, <<>>, pasv(pr))

\* A TCP port that can be dialed.
ValidPort(port) == port \in 0..65535

\* The passive-mode command whose reply gave the port: the last command of ev.
Via(ev) == IF \E i \in 1..Len(ev) : ev[i].k = "W" /\ ev[i].c = "PASV" THEN "PASV" ELSE "EPSV"

\* client.openDataConn once getDataConnPort has returned g: a dial of target,
\* which is (client.host, port); dialOk says whether the network lets the dial
\* succeed.
dialPort(g, dialOk, target) ==
  IF g.out /= "ok"
  THEN [out |-> g.out, unepsv |-> g.unepsv, ev |-> g.ev, dial |-> {}]
  ELSE IF dialOk /\ ValidPort(g.port)
  THEN [out |-> "ok", unepsv |-> g.unepsv,
        ev |-> g.ev \o <<Ev("DIAL", "", g.port)>>, dial |-> {target}]
  ELSE [out |-> "err", unepsv |-> g.unepsv,
        ev |-> g.ev \o <<Ev("DIALERR", "", g.port)>>, dial |-> {target}]

\* A faulty dial target, against which the choice of the host is tested: the
\* address the server advertises in its PASV reply instead of client.host.
DialTargetAdvertised(g, h, er, pr) ==
  LET start == Index(pr.msg, <<"(">>)
      end == LastIndex(pr.msg, <<")">>)
      octets == Split(Slice(pr.msg, start + 1, end), <<",">>)
  IN  [via |-> Via(g.ev), body |-> IF Via(g.ev) = "PASV" THEN pr.msg ELSE er.msg,
       host |-> IF Via(g.ev) = "PASV" /\ g.out = "ok"
                THEN octets[1] \o <<".">> \o octets[2] \o <<".">> \o octets[3]
                       \o <<".">> \o octets[4]
                ELSE h,
       port |-> g.port]

\* The target of the dial after g: the host and the port, and the passive-mode
\* reply the port came from.
DialTarget(g, h, er, pr) ==
  [via |-> Via(g.ev), body |-> IF Via(g.ev) = "PASV" THEN pr.msg ELSE er.msg,
   host |-> h, port |-> g.port]

\* The dial after g.
dialAfter(g, h, er, pr, dialOk) == dialPort(g, dialOk, DialTarget(g, h, er, pr))

\* client.openDataConn
openDataConn(flag, h, er, pr, dialOk) ==
  dialAfter(getDataConnPort(flag, er, pr), h, er, pr, dialOk)

----------------------------------------------------------------------------
(* Reply bodies the server may send to EPSV and PASV.                      *)

\* All strings over alphabet of length at most n.
Strings(alphabet, n) == UNION {[1..k -> alphabet] : k \in 0..n}

\* Text before and after the parenthesized part of a reply.
EpsvPads == {<<>>, <<"x">>, <<"|">>}
PasvPre == {<<>>, <<"x">>, <<")">>}
PasvPost == {<<>>, <<".">>}

\* The port field of an EPSV reply: digit strings, and fields that are no number.
EpsvFields == Strings({"5", "1"}, MaxDigits) \cup {<<"x">>, <<"-", "5">>}
EpsvOpen == {<<"(">>, <<>>}
EpsvBars == {<<"|", "|", "|">>, <<"|", "|">>}
EpsvClose == {<<"|", ")">>, <<")">>, <<>>}

\* The fields of a PASV reply: four, or only three, address octets; port fields
\* that are octets, integers that are no octet, and no integer.
PasvHosts == {<<"1", ",", "2", ",", "3", ",", "4">>,
              <<"1", "9", "2", ",", "1", "6", "8", ",", "1", ",", "1">>,
              <<"1", ",", "2", ",", "3">>}
PasvFields1 == {<<"0">>, <<"1", "3">>, <<"2", "0", "0">>, <<"2", "5", "6">>,
                <<"-", "1">>, <<"x">>}
PasvFields2 == {<<"1", "3">>, <<"2", "5", "6">>, <<"x">>}
PasvOpen == {<<"(">>, <<>>}
PasvExtra == {<<>>, <<",", "7">>}
PasvClose == {<<")">>, <<>>}

\* The replies the session model draws from: the bodies of the spec's examples
\* and one of each malformed kind.
SomeEpsvReplies ==
  { Reply(StatusExtendedPassiveMode,
          <<"(", "|", "|", "|", "5", "1", "2", "1", "3", "|", ")">>),
    Reply(StatusExtendedPassiveMode, <<"(", "|", "|", "|", "5", "1">>),
    Reply(StatusExtendedPassiveMode, <<"(", "|", "|", "|", "x", "|", ")">>),
    Reply(StatusExtendedPassiveMode, <<"x">>),
    ReadFails }
    \cup {Reply(c, <<"x">>) : c \in OtherCodes}
SomePasvReplies ==
  { Reply(StatusPassiveMode,
          <<"(", "1", ",", "2", ",", "3", ",", "4", ",", "2", ",", "1", ")">>),
    Reply(StatusPassiveMode,
          <<"(", "1", "9", "2", ",", "1", "6", "8", ",", "1", ",", "1", ",",
            "2", "0", "0", ",", "1", "3", ")">>),
    Reply(StatusPassiveMode,
          <<"(", "1", ",", "2", ",", "3", ",", "4", ",", "2", "0", "0", ",", "1", "3", ")">>),
    Reply(StatusPassiveMode,
          <<"(", "1", ",", "2", ",", "3", ",", "4", ",", "x", ",", "1", ")">>),
    Reply(StatusPassiveMode, <<")", "(">>),
    Reply(StatusPassiveMode, <<"(", "1", ",", "2", ")">>),
    WriteFails }
    \cup {Reply(c, <<"x">>) : c \in OtherCodes}

----------------------------------------------------------------------------
(* The port-negotiation functions applied on their own: epsv to EPSV       *)
(* bodies "(|||N|)" inside some text and their malformed neighbours (a bar *)
(* missing, no closing bar, no parentheses, a field that is no number),    *)
(* pasv to PASV bodies "(h1,h2,h3,h4,p1,p2)" inside some text and their    *)
(* malformed neighbours (a parenthesis missing or misplaced, five or seven *)
(* fields, a port field that is no integer or no octet).                   *)

\* The hosts a session may be connected to.
Hosts == {<<"1", "0", ".", "0", ".", "0", ".", "1">>,
          <<"1", "0", ".", "0", ".", "0", ".", "2">>}

NoReply == Reply(0, <<>>)
NoResult ==
  [fn |-> "none", port |-> 0, out |-> "none", unepsv |-> FALSE, ev |-> <<>>,
   dial |-> {}]

\* The input of one application: the function, client.unepsv, the server's
\* answers to EPSV and PASV, client.host and whether the network lets the dial
\* succeed (the last two matter to openDataConn only).
PortInput(fn, flag, er, pr) ==
  [fn |-> fn, unepsv |-> flag, er |-> er, pr |-> pr, h |-> <<>>, dialOk |-> TRUE]

EpsvInput(fn, flag, pr) ==
  \/ \E pre \in EpsvPads, open \in EpsvOpen, bars \in EpsvBars, field \in EpsvFields,
        close \in EpsvClose, post \in EpsvPads :
       pin = PortInput(fn, flag,
                       Reply(StatusExtendedPassiveMode,
                             pre \o open \o bars \o field \o close \o post), pr)
  \/ \E e \in SomeEpsvReplies \cup {WriteFails} : pin = PortInput(fn, flag, e, pr)

PasvInput ==
  \/ \E pre \in PasvPre, open \in PasvOpen, h \in PasvHosts, p1 \in PasvFields1,
        p2 \in PasvFields2, extra \in PasvExtra, close \in PasvClose,
        post \in PasvPost :
       pin = PortInput("pasv", FALSE, NoReply,
                       Reply(StatusPassiveMode,
                             pre \o open \o h \o <<",">> \o p1 \o <<",">> \o p2
                                 \o extra \o close \o post))
  \/ \E p \in SomePasvReplies \cup {ReadFails} :
       pin = PortInput("pasv", FALSE, NoReply, p)

AcquireInput ==
  \/ \E p \in {Reply(StatusPassiveMode, <<"(", "1", ",", "2", ",", "3", ",", "4", ",", "2", ",", "1", ")">>),
               Reply(StatusPassiveMode, <<"x">>)} :
       EpsvInput("getDataConnPort", FALSE, p)
  \/ \E e \in SomeEpsvReplies, p \in SomePasvReplies :
       pin = PortInput("getDataConnPort", TRUE, e, p)

\* openDataConn with EPSV disabled, on the PASV bodies; and with EPSV enabled.
OpenInput ==
  \E h \in Hosts, dialOk \in BOOLEAN :
    \/ \E pre \in PasvPre, open \in PasvOpen, p1 \in PasvFields1, p2 \in PasvFields2,
          close \in PasvClose :
         pin = [PortInput("openDataConn", TRUE, NoReply,
                          Reply(StatusPassiveMode,
                                pre \o open \o <<"1", ",", "2", ",", "3", ",", "4", ",">>
                                    \o p1 \o <<",">> \o p2 \o close))
                  EXCEPT !.h = h, !.dialOk = dialOk]
    \/ \E flag \in BOOLEAN, e \in SomeEpsvReplies, p \in SomePasvReplies :
         pin = [PortInput("openDataConn", flag, e, p)
                  EXCEPT !.h = h, !.dialOk = dialOk]

ApplyEpsv ==
  /\ pin.fn = "epsv" /\ pout.out = "none"
  /\ LET r == epsv(pin.er)
     IN  pout' = [fn |-> "epsv", port |-> r.port, out |-> r.out,
                  unepsv |-> pin.unepsv, ev |-> r.ev, dial |-> {}]
  /\ UNCHANGED <<pin, sessionVars, callVars>>

ApplyPasv ==
  /\ pin.fn = "pasv" /\ pout.out = "none"
  /\ LET r == pasv(pin.pr)
     IN  pout' = [fn |-> "pasv", port |-> r.port, out |-> r.out,
                  unepsv |-> pin.unepsv, ev |-> r.ev, dial |-> {}]
  /\ UNCHANGED <<pin, sessionVars, callVars>>

ApplyGetDataConnPort ==
  /\ pin.fn = "getDataConnPort" /\ pout.out = "none"
  /\ LET r == getDataConnPort(pin.unepsv, pin.er, pin.pr)
     IN  pout' = [fn |-> "getDataConnPort", port |-> r.port, out |-> r.out,
                  unepsv |-> r.unepsv, ev |-> r.ev, dial |-> {}]
  /\ UNCHANGED <<pin, sessionVars, callVars>>

ApplyOpenDataConn ==
  /\ pin.fn = "openDataConn" /\ pout.out = "none"
  /\ \E r \in {openDataConn(pin.unepsv, pin.h, pin.er, pin.pr, pin.dialOk)} :
       pout' = [fn |-> "openDataConn", port |-> 0, out |-> r.out,
                unepsv |-> r.unepsv, ev |-> r.ev, dial |-> r.dial]
  /\ UNCHANGED <<pin, sessionVars, callVars>>

NoSession ==
  /\ conn = "nil" /\ host = <<>> /\ mlst = FALSE /\ unepsv = FALSE
  /\ features = <<>>
NoStream == [conn |-> "none", reads |-> 0, last |-> "none", closes |-> 0]
NoReturn == [op |-> "none", err |-> FALSE, why |-> "none", code |-> 0, msg |-> <<>>]
NoCall ==
  /\ op = "idle" /\ pc = "idle" /\ offset = 0
  /\ dconn = "none" /\ lines = <<>> /\ entries = <<>>
  /\ stream = NoStream /\ nops = 0
  /\ log = <<>> /\ ret = NoReturn
  /\ dials = {}

InitPort ==
  /\ NoSession /\ NoCall
  /\ pout = NoResult
  /\ \/ EpsvInput("epsv", FALSE, NoReply)
     \/ PasvInput
     \/ AcquireInput
     \/ OpenInput

NextPort == ApplyEpsv \/ ApplyPasv \/ ApplyGetDataConnPort \/ ApplyOpenDataConn

SpecPort == InitPort /\ [][NextPort]_vars

----------------------------------------------------------------------------
(* The control session (ftp.go).                                           *)

Space == {" ", "\n", "\t", "\r"}

\* strings.TrimSpace
RECURSIVE TrimSpace(_)
TrimSpace(s) ==
  IF s = <<>> THEN s
  ELSE IF Head(s) \in Space THEN TrimSpace(Tail(s))
  ELSE IF s[Len(s)] \in Space THEN TrimSpace(SubSeq(s, 1, Len(s) - 1))
  ELSE s

\* strings.HasPrefix
HasPrefix(s, prefix) == OccursAt(s, prefix, 0)

\* strings.SplitN(s, sep, 2): s cut at the first separator, if there is one.
SplitN2(s, sep) ==
  LET i == Index(s, sep)
  IN  IF i = -1 THEN <<s>>
      ELSE <<Slice(s, 0, i), Slice(s, i + Len(sep), Len(s))>>

\* m[k] = v, for a Go map m.
MapPut(m, k, v) == [x \in DOMAIN m \cup {k} |-> IF x = k THEN v ELSE m[x]]
EmptyMap == <<>>

\* A faulty loop of feat, against which the trimming of a line is tested: it
\* cuts the line as it is, leading space included.
RECURSIVE featLinesUntrimmed(_, _)
featLinesUntrimmed(m, ls) ==
  IF ls = <<>> THEN m
  ELSE LET line == Head(ls)
           f == SplitN2(line, <<" ">>)
       IN  IF ~HasPrefix(line, <<" ">>) THEN featLinesUntrimmed(m, Tail(ls))
           ELSE featLinesUntrimmed(MapPut(m, f[1], IF Len(f) = 2 THEN f[2] ELSE <<>>),
                                   Tail(ls))

\* The loop of feat over the lines of a 211 reply: every line that starts with a
\* space is trimmed and cut at its first space into a capability and a parameter.
RECURSIVE featLines(_, _)
featLines(m, ls) ==
  IF ls = <<>> THEN m
  ELSE LET line == Head(ls)
           f == SplitN2(TrimSpace(line), <<" ">>)
       IN  IF ~HasPrefix(line, <<" ">>) THEN featLines(m, Tail(ls))
           ELSE featLines(MapPut(m, f[1], IF Len(f) = 2 THEN f[2] ELSE <<>>),
                          Tail(ls))

\* A faulty feat, against which the check of the reply code is tested: it reads
\* capabilities from the message of a reply of any code.
featAnyCode(rep) ==
  LET r == cmd(AnyCode, "FEAT", rep)
  IN  IF r.err THEN [err |-> TRUE, features |-> EmptyMap, ev |-> r.ev]
      ELSE [err |-> FALSE, features |-> featLines(EmptyMap, Split(r.msg, <<"\n">>)),
            ev |-> r.ev]

\* client.feat
feat(rep) ==
  LET r == cmd(AnyCode, "FEAT", rep)
  IN  IF r.err THEN [err |-> TRUE, features |-> EmptyMap, ev |-> r.ev]
      ELSE IF r.code /= StatusSystem
      THEN [err |-> FALSE, features |-> EmptyMap, ev |-> r.ev]
      ELSE [err |-> FALSE, features |-> featLines(EmptyMap, Split(r.msg, <<"\n">>)),
            ev |-> r.ev]

\* A faulty Close, against which the attempt of every step is tested: it
\* returns at the first step that fails.
client_CloseShortCircuit(reinRep, quitOk, closeOk) ==
  LET rein == cmd(StatusReady, "REIN", reinRep)
  IN  IF rein.err THEN [err |-> "REIN", ev |-> rein.ev]
      ELSE IF ~quitOk
      THEN [err |-> "QUIT", ev |-> rein.ev \o <<Ev("WERR", "QUIT", 0)>>]
      ELSE [err |-> IF closeOk THEN "nil" ELSE "close",
            ev |-> rein.ev \o <<Ev("W", "QUIT", 0)>>
                   \o <<Ev(IF closeOk THEN "CLOSE" ELSE "CLOSEERR", "", 0)>>]

\* client.Close: REIN, QUIT and the close of the socket, each attempted whatever
\* the others did; err names the step whose error is returned, "nil" for none.
client_Close(reinRep, quitOk, closeOk) ==
  LET rein == cmd(StatusReady, "REIN", reinRep)
      err1 == IF rein.err THEN "REIN" ELSE "nil"
      err2 == IF ~quitOk THEN "QUIT" ELSE err1
      err3 == IF ~closeOk THEN "close" ELSE err2
  IN  [err |-> err3,
       ev |-> rein.ev
              \o <<Ev(IF quitOk THEN "W" ELSE "WERR", "QUIT", 0)>>
              \o <<Ev(IF closeOk THEN "CLOSE" ELSE "CLOSEERR", "", 0)>>]

MLST == <<"M", "L", "S", "T">>
UTF8 == <<"U", "T", "F", "8">>

\* A faulty DialTimeout, against which the check of the greeting is tested: it
\* accepts a greeting of any code.
DialTimeoutAnyGreeting(dialOk, h, greeting, featRep, reinRep, quitOk, closeOk) ==
  LET hello == ReadResponse(AnyCode, greeting)
      f == feat(featRep)
      bye == client_Close(reinRep, quitOk, closeOk)
      none == [c |-> "nil", host |-> <<>>, features |-> EmptyMap, mlst |-> FALSE,
               err |-> TRUE, sock |-> "nil", ev |-> <<>>]
  IN  IF ~dialOk THEN [none EXCEPT !.ev = <<Ev("CONNECTERR", "", 0)>>]
      ELSE IF hello.err
      THEN [none EXCEPT !.sock = "closed",
                        !.ev = <<Ev("CONNECT", "", 0)>> \o hello.ev \o bye.ev]
      ELSE IF f.err
      THEN [none EXCEPT !.sock = "closed",
                        !.ev = <<Ev("CONNECT", "", 0)>> \o hello.ev \o f.ev \o bye.ev]
      ELSE [c |-> "open", host |-> h, features |-> f.features,
            mlst |-> (MLST \in DOMAIN f.features),
            err |-> FALSE, sock |-> "open",
            ev |-> <<Ev("CONNECT", "", 0)>> \o hello.ev \o f.ev]

\* A faulty DialTimeout, against which the setting of mlst is tested: it leaves
\* the flag false whatever the table holds.
DialTimeoutMlstUnset(dialOk, h, greeting, featRep, reinRep, quitOk, closeOk) ==
  LET hello == ReadResponse(StatusReady, greeting)
      f == feat(featRep)
      bye == client_Close(reinRep, quitOk, closeOk)
      none == [c |-> "nil", host |-> <<>>, features |-> EmptyMap, mlst |-> FALSE,
               err |-> TRUE, sock |-> "nil", ev |-> <<>>]
  IN  IF ~dialOk THEN [none EXCEPT !.ev = <<Ev("CONNECTERR", "", 0)>>]
      ELSE IF hello.err
      THEN [none EXCEPT !.sock = "closed",
                        !.ev = <<Ev("CONNECT", "", 0)>> \o hello.ev \o bye.ev]
      ELSE IF f.err
      THEN [none EXCEPT !.sock = "closed",
                        !.ev = <<Ev("CONNECT", "", 0)>> \o hello.ev \o f.ev \o bye.ev]
      ELSE [c |-> "open", host |-> h, features |-> f.features,
            mlst |-> FALSE,
            err |-> FALSE, sock |-> "open",
            ev |-> <<Ev("CONNECT", "", 0)>> \o hello.ev \o f.ev]

\* DialTimeout: the dial, the greeting, feat.  dialOk and h are what the network
\* gives (whether the dial succeeds, and the address it resolved to); the three
\* last inputs are those of the Close that a failed greeting or feat calls.
\* c is the session returned ("nil" for none) and sock the socket's state.
DialTimeout(dialOk, h, greeting, featRep, reinRep, quitOk, closeOk) ==
  LET hello == ReadResponse(StatusReady, greeting)
      f == feat(featRep)
      bye == client_Close(reinRep, quitOk, closeOk)
      none == [c |-> "nil", host |-> <<>>, features |-> EmptyMap, mlst |-> FALSE,
               err |-> TRUE, sock |-> "nil", ev |-> <<>>]
  IN  IF ~dialOk THEN [none EXCEPT !.ev = <<Ev("CONNECTERR", "", 0)>>]
      ELSE IF hello.err
      THEN [none EXCEPT !.sock = "closed",
                        !.ev = <<Ev("CONNECT", "", 0)>> \o hello.ev \o bye.ev]
      ELSE IF f.err
      THEN [none EXCEPT !.sock = "closed",
                        !.ev = <<Ev("CONNECT", "", 0)>> \o hello.ev \o f.ev \o bye.ev]
      ELSE [c |-> "open", host |-> h, features |-> f.features,
            mlst |-> (MLST \in DOMAIN f.features),
            err |-> FALSE, sock |-> "open",
            ev |-> <<Ev("CONNECT", "", 0)>> \o hello.ev \o f.ev]

\* A faulty setUTF8, against which the dependence of OPTS on the feature table
\* is tested: it writes OPTS UTF8 ON whatever the table holds.
setUTF8Unasked(feats, rep) ==
  LET r == cmd(AnyCode, "OPTS UTF8 ON", rep)
  IN  IF r.err THEN [err |-> TRUE, ev |-> r.ev]
      ELSE IF r.code = StatusCommandNotImplemented THEN [err |-> FALSE, ev |-> r.ev]
      ELSE IF r.code /= StatusCommandOK THEN [err |-> TRUE, ev |-> r.ev]
      ELSE [err |-> FALSE, ev |-> r.ev]

\* client.setUTF8
setUTF8(feats, rep) ==
  LET r == cmd(AnyCode, "OPTS UTF8 ON", rep)
  IN  IF UTF8 \notin DOMAIN feats THEN [err |-> FALSE, ev |-> <<>>]
      ELSE IF r.err THEN [err |-> TRUE, ev |-> r.ev]
      ELSE IF r.code = StatusCommandNotImplemented THEN [err |-> FALSE, ev |-> r.ev]
      ELSE IF r.code /= StatusCommandOK THEN [err |-> TRUE, ev |-> r.ev]
      ELSE [err |-> FALSE, ev |-> r.ev]

\* A faulty Login, against which the sequencing of USER and PASS is tested:
\* it goes on to TYPE whatever the reply to PASS.
LoginAnyPass(feats, userRep, passRep, typeRep, optsRep) ==
  LET user == cmd(AnyCode, "USER", userRep)
      pass == cmd(AnyCode, "PASS", passRep)
      type == cmd(StatusCommandOK, "TYPE I", typeRep)
      utf8 == setUTF8(feats, optsRep)
      binary(ev) == IF type.err THEN [err |-> TRUE, ev |-> ev \o type.ev]
                    ELSE [err |-> utf8.err, ev |-> ev \o type.ev \o utf8.ev]
  IN  IF user.err THEN [err |-> TRUE, ev |-> user.ev]
      ELSE IF user.code = StatusLoggedIn THEN binary(user.ev)
      ELSE IF user.code = StatusUserOK
      THEN IF pass.err THEN [err |-> TRUE, ev |-> user.ev \o pass.ev]
           ELSE binary(user.ev \o pass.ev)
      ELSE [err |-> TRUE, ev |-> user.ev]

\* client.Login
Login(feats, userRep, passRep, typeRep, optsRep) ==
  LET user == cmd(AnyCode, "USER", userRep)
      pass == cmd(StatusLoggedIn, "PASS", passRep)
      type == cmd(StatusCommandOK, "TYPE I", typeRep)
      utf8 == setUTF8(feats, optsRep)
      binary(ev) == IF type.err THEN [err |-> TRUE, ev |-> ev \o type.ev]
                    ELSE [err |-> utf8.err, ev |-> ev \o type.ev \o utf8.ev]
  IN  IF user.err THEN [err |-> TRUE, ev |-> user.ev]
      ELSE IF user.code = StatusLoggedIn THEN binary(user.ev)
      ELSE IF user.code = StatusUserOK
      THEN IF pass.err THEN [err |-> TRUE, ev |-> user.ev \o pass.ev]
           ELSE binary(user.ev \o pass.ev)
      ELSE [err |-> TRUE, ev |-> user.ev]

----------------------------------------------------------------------------
(* The transfer operations.                                                *)

DataClose == Ev("DCLOSE", "", 0)

\* A faulty response.Close, against which the trailing read is tested: it
\* closes the data connection and reads no control reply.
response_CloseUndrained(data, closeOk, rep) ==
  [err |-> IF data /= "open" \/ ~closeOk THEN "close" ELSE "nil",
   ev |-> <<DataClose>>]

\* response.Close on a data connection in state data: the close of the data
\* connection (an error when it is closed already, or when closeOk is false),
\* then one control reply, which has to be 226.  err is "nil", "close" or "reply".
response_Close(data, closeOk, rep) ==
  LET r == ReadResponse(StatusClosingDataConnection, rep)
      err == IF data /= "open" \/ ~closeOk THEN "close" ELSE "nil"
  IN  [err |-> IF r.err THEN "reply" ELSE err,
       ev |-> <<DataClose>> \o r.ev]

\* A faulty REST of cmdDataConnFrom, against which the check of its reply is
\* tested: it goes on whatever the code of the reply.
cmdDataConnFrom_restUnchecked(rep) ==
  LET r == cmd(AnyCode, "REST", rep)
  IN  IF r.err THEN [err |-> TRUE, conn |-> "closed", ev |-> r.ev \o <<DataClose>>]
      ELSE [err |-> FALSE, conn |-> "open", ev |-> r.ev]

\* cmdDataConnFrom with an offset that is not 0, on the data connection it has
\* opened: REST, which has to be answered with 350; on an error the data
\* connection is closed.  conn is the state of the data connection.
cmdDataConnFrom_rest(rep) ==
  LET r == cmd(StatusRequestFilePending, "REST", rep)
  IN  IF r.err THEN [err |-> TRUE, conn |-> "closed", ev |-> r.ev \o <<DataClose>>]
      ELSE [err |-> FALSE, conn |-> "open", ev |-> r.ev]

\* A faulty end of cmdDataConnFrom, against which the close of the data
\* connection is tested: it returns the error of a reply that is neither 125
\* nor 150 and leaves the data connection open.
cmdDataConnFrom_commandLeaks(verb, rep) ==
  LET r == cmd(AnyCode, verb, rep)
  IN  IF r.err
      THEN [err |-> TRUE, conn |-> "closed", code |-> 0, msg |-> <<>>,
            ev |-> r.ev \o <<DataClose>>]
      ELSE IF r.code /= StatusAlreadyOpen /\ r.code /= StatusAboutToSend
      THEN [err |-> TRUE, conn |-> "open", code |-> r.code, msg |-> r.msg,
            ev |-> r.ev]
      ELSE [err |-> FALSE, conn |-> "open", code |-> 0, msg |-> <<>>, ev |-> r.ev]

\* A faulty end of cmdDataConnFrom, against which the absence of a trailing
\* read is tested: it closes the data connection of a refused command the way
\* response.Close does, reading one more control reply.
cmdDataConnFrom_commandDrains(verb, rep) ==
  LET r == cmd(AnyCode, verb, rep)
  IN  IF r.err
      THEN [err |-> TRUE, conn |-> "closed", code |-> 0, msg |-> <<>>,
            ev |-> r.ev \o <<DataClose>>]
      ELSE IF r.code /= StatusAlreadyOpen /\ r.code /= StatusAboutToSend
      THEN [err |-> TRUE, conn |-> "closed", code |-> r.code, msg |-> r.msg,
            ev |-> r.ev \o <<DataClose>>
                     \o ReadResponse(StatusClosingDataConnection, rep).ev]
      ELSE [err |-> FALSE, conn |-> "open", code |-> 0, msg |-> <<>>, ev |-> r.ev]

\* The end of cmdDataConnFrom: the command, written with Cmd, and one reply of
\* any code, read with ReadResponse(-1); unless the reply is 125 or 150 the data
\* connection is closed and an error returned, which for a reply of another
\* code is a textproto.Error of that reply's code and message.
cmdDataConnFrom_command(verb, rep) ==
  LET r == cmd(AnyCode, verb, rep)
  IN  IF r.err
      THEN [err |-> TRUE, conn |-> "closed", code |-> 0, msg |-> <<>>,
            ev |-> r.ev \o <<DataClose>>]
      ELSE IF r.code /= StatusAlreadyOpen /\ r.code /= StatusAboutToSend
      THEN [err |-> TRUE, conn |-> "closed", code |-> r.code, msg |-> r.msg,
            ev |-> r.ev \o <<DataClose>>]
      ELSE [err |-> FALSE, conn |-> "open", code |-> 0, msg |-> <<>>, ev |-> r.ev]

\* The rest of StorFrom once cmdDataConnFrom returned a data connection: the
\* copy of the caller's reader onto it, its close, and the completion reply.
StorFromCopy(copyOk, rep) ==
  LET r == ReadResponse(StatusClosingDataConnection, rep)
  IN  IF ~copyOk
      THEN [err |-> TRUE, ev |-> <<Ev("DWRITEERR", "", 0), DataClose>>]
      ELSE [err |-> r.err, ev |-> <<Ev("DWRITE", "", 0), DataClose>> \o r.ev]

----------------------------------------------------------------------------
(* The inputs of the session: what the network and the server answer.      *)

\* The replies to a command that expects code: that code, a code the client does
\* not expect, and no reply at all.
Replies(code) == {Reply(c, <<"x">>) : c \in {code} \cup OtherCodes} \cup {ReadFails}

\* The message of "211-Features:\n MLST\n SIZE\n211 End", of a reply that lists
\* UTF8 and MLST with a parameter, and a 211 reply that lists nothing.
FeatReplies ==
  { Reply(StatusSystem,
          <<"F", "e", "a", "t", "u", "r", "e", "s", ":", "\n",
            " ", "M", "L", "S", "T", "\n", " ", "S", "I", "Z", "E", "\n",
            "E", "n", "d">>),
    Reply(StatusSystem,
          <<"F", ":", "\n", " ", "U", "T", "F", "8", "\n",
            " ", "M", "L", "S", "T", " ", "a", " ", "b", "\n", "E", "n", "d">>),
    Reply(StatusSystem, <<"E", "n", "d">>),
    ReadFails }
    \cup {Reply(c, <<" ", "M", "L", "S", "T">>) : c \in OtherCodes}

\* Resume offsets: none (Retr, Stor) and some.
Offsets == {0, 7}

\* The lines of a name listing, and the file name Delete looks for in them.
Lines == {<<"a">>, <<"b">>}
FileName == <<"a">>

\* A faulty choice of List, against which the use of the flag is tested: LIST
\* and the chain of parsers, whatever the flag.
List_commandAlwaysLIST(flag) == [cmd |-> "LIST", parseFunc |-> "parseListLine"]

\* List, its choice of the command and of the parser by the flag mlst.
List_command(flag) ==
  IF flag THEN [cmd |-> "MLSD", parseFunc |-> "parseRFC3659ListLine"]
  ELSE [cmd |-> "LIST", parseFunc |-> "parseListLine"]

\* The command an operation sends once its data connection is open.
Verb(o) ==
  CASE o \in {"NameList", "Delete"} -> "NLST"
    [] o = "RetrFrom" -> "RETR"
    [] o \in {"StorFrom", "Upload"} -> "STOR"
    [] o = "List" -> List_command(mlst).cmd

\* What an operation returned: whether it is an error, which step gave it, and
\* for an error made of a reply (a textproto.Error) that reply's code and message.
Returned(name, err, why) ==
  [op |-> name, err |-> err, why |-> why, code |-> 0, msg |-> <<>>]

----------------------------------------------------------------------------
(* The listing parsers (parse.go), and the functions of Go's strings,      *)
(* strconv and time packages they call.                                    *)

\* strings.Fields: the substrings between the runs of white space.
RECURSIVE Fields(_)
Fields(s) ==
  IF s = <<>> THEN <<>>
  ELSE IF s[1] \in Space THEN Fields(SubSeq(s, 2, Len(s)))
  ELSE LET ends == {i \in 1..Len(s) : s[i] \in Space}
           n == IF ends = {} THEN Len(s) + 1
                ELSE CHOOSE i \in ends : \A j \in ends : i <= j
       IN  <<SubSeq(s, 1, n - 1)>> \o Fields(SubSeq(s, n, Len(s)))

\* strings.Join.
RECURSIVE Join(_, _)
Join(elems, sep) ==
  IF elems = <<>> THEN <<>>
  ELSE IF Len(elems) = 1 THEN elems[1]
  ELSE elems[1] \o sep \o Join(SubSeq(elems, 2, Len(elems)), sep)

\* strings.TrimLeft(s, cutset): s without its leading characters of cutset.
RECURSIVE TrimLeft(_, _)
TrimLeft(s, cutset) ==
  IF s /= <<>> /\ s[1] \in cutset THEN TrimLeft(SubSeq(s, 2, Len(s)), cutset)
  ELSE s

\* strings.TrimPrefix.
TrimPrefix(s, prefix) ==
  IF HasPrefix(s, prefix) THEN SubSeq(s, Len(prefix) + 1, Len(s)) ELSE s

\* The letters, and lower(c) of strconv and time: the lower-case letter of a
\* letter, and any other character unchanged.
UpperLetters == <<"A", "B", "C", "D", "E", "F", "G", "H", "I", "J", "K", "L", "M", "N", "O", "P", "Q", "R", "S", "T", "U", "V", "W", "X", "Y", "Z">>
LowerLetters == <<"a", "b", "c", "d", "e", "f", "g", "h", "i", "j", "k", "l", "m", "n", "o", "p", "q", "r", "s", "t", "u", "v", "w", "x", "y", "z">>
ToLower(c) ==
  IF \E i \in 1..26 : UpperLetters[i] = c
  THEN LowerLetters[CHOOSE i \in 1..26 : UpperLetters[i] = c]
  ELSE c

\* The value of a character as a digit of a number in a base up to 36, as
\* strconv.ParseUint reads it; 36 for a character that is no digit.
DigitOf(c) ==
  IF c \in Digit THEN DigitVal(c)
  ELSE IF \E i \in 1..26 : LowerLetters[i] = ToLower(c)
       THEN 9 + (CHOOSE i \in 1..26 : LowerLetters[i] = ToLower(c))
       ELSE 36

\* The value of a string of digits of a base.
RECURSIVE ValueInBase(_, _)
ValueInBase(s, base) ==
  IF s = <<>> THEN 0
  ELSE base * ValueInBase(SubSeq(s, 1, Len(s) - 1), base) + DigitOf(s[Len(s)])

\* strconv.ParseUint(s, 10, 64): at least one decimal digit and nothing else.
\* On an error the value is 0.  (The numbers of the model are far below 2^64,
\* at which ParseUint reports a range error.)
ParseUint10(s) ==
  IF s /= <<>> /\ \A i \in 1..Len(s) : s[i] \in Digit
  THEN [ok |-> TRUE, val |-> DecimalValue(s)]
  ELSE [ok |-> FALSE, val |-> 0]

\* The base strconv.ParseUint(s, 0, 64) takes from the prefix of s, and the
\* number of characters of that prefix: "0b", "0o" and "0x" (in either case)
\* before at least one more character give 2, 8 and 16, another leading "0"
\* gives 8, and anything else 10.
BaseOfPrefix(s) ==
  IF s /= <<>> /\ s[1] = "0"
  THEN IF Len(s) >= 3 /\ ToLower(s[2]) = "b" THEN [base |-> 2, skip |-> 2]
       ELSE IF Len(s) >= 3 /\ ToLower(s[2]) = "o" THEN [base |-> 8, skip |-> 2]
       ELSE IF Len(s) >= 3 /\ ToLower(s[2]) = "x" THEN [base |-> 16, skip |-> 2]
       ELSE [base |-> 8, skip |-> 1]
  ELSE [base |-> 10, skip |-> 0]

\* underscoreOK of strconv: every underscore of s stands between two digits,
\* or between the base prefix and a digit.
UnderscoreOK(s) ==
  \A k \in 1..Len(s) :
    s[k] = "_" => (k > 1 /\ k < Len(s) /\ s[k - 1] /= "_" /\ s[k + 1] /= "_")

NotUnderscore(c) == c /= "_"

\* strconv.ParseUint(s, 0, 64), p being the prefix found in s: the characters
\* after the prefix, underscores apart, are digits of the base.  A lone "0" is
\* the prefix of base 8 followed by no digit, and has the value 0.  On an
\* error the value is 0.  (The numbers of the model are far below 2^64, at
\* which ParseUint reports a range error.)
ParseUintOfBase(s, p, digits) ==
  IF /\ s /= <<>>
     /\ \A i \in 1..Len(digits) : DigitOf(digits[i]) < p.base
     /\ UnderscoreOK(s)
  THEN [ok |-> TRUE, val |-> ValueInBase(digits, p.base)]
  ELSE [ok |-> FALSE, val |-> 0]

ParseUintWithPrefix(s, p) ==
  ParseUintOfBase(s, p, SelectSeq(SubSeq(s, p.skip + 1, Len(s)), NotUnderscore))

ParseUint0(s) == ParseUintWithPrefix(s, BaseOfPrefix(s))

\* A time.Time, as the date and the clock it shows in UTC; ZeroTime is Time{}.
Date(y, mo, d, h, mi, s, ns) ==
  [year |-> y, month |-> mo, day |-> d, hour |-> h, min |-> mi, sec |-> s,
   nsec |-> ns]
ZeroTime == Date(1, 1, 1, 0, 0, 0, 0)

\* isDigit(s, i) of the time package, i being a Go index.
IsDigitAt(s, i) == i < Len(s) /\ s[i + 1] \in Digit

\* getnum: a number of one or two digits at the start of s, of two digits when
\* fixed.
GetNum(s, fixed) ==
  IF ~IsDigitAt(s, 0) THEN [ok |-> FALSE, n |-> 0, rest |-> s]
  ELSE IF ~IsDigitAt(s, 1)
       THEN IF fixed THEN [ok |-> FALSE, n |-> 0, rest |-> s]
            ELSE [ok |-> TRUE, n |-> DigitVal(s[1]), rest |-> SubSeq(s, 2, Len(s))]
       ELSE [ok |-> TRUE, n |-> 10 * DigitVal(s[1]) + DigitVal(s[2]),
             rest |-> SubSeq(s, 3, Len(s))]

\* atoi of the time package: an optional sign and then digits only (none is
\* accepted and gives 0).
TimeAtoi(s) ==
  LET signed == s /= <<>> /\ s[1] \in {"+", "-"}
      digits == IF signed THEN SubSeq(s, 2, Len(s)) ELSE s
  IN  IF \A i \in 1..Len(digits) : digits[i] \in Digit
      THEN [ok |-> TRUE,
            val |-> IF signed /\ s[1] = "-" THEN 0 - DecimalValue(digits)
                    ELSE DecimalValue(digits)]
      ELSE [ok |-> FALSE, val |-> 0]

\* cutspace: s without its leading spaces.
CutSpace(s) == TrimLeft(s, {" "})

\* skip(value, prefix): the value after the literal text prefix of the layout.
\* A run of spaces of the layout stands for one space or more of the value, or
\* for the end of the value.
RECURSIVE Skip(_, _)
Skip(value, prefix) ==
  IF prefix = <<>> THEN [ok |-> TRUE, rest |-> value]
  ELSE IF prefix[1] = " "
       THEN IF value /= <<>> /\ value[1] /= " " THEN [ok |-> FALSE, rest |-> value]
            ELSE Skip(CutSpace(value), CutSpace(prefix))
       ELSE IF value = <<>> \/ value[1] /= prefix[1] THEN [ok |-> FALSE, rest |-> value]
            ELSE Skip(SubSeq(value, 2, Len(value)), SubSeq(prefix, 2, Len(prefix)))

\* shortMonthNames, and lookup in it: the month whose name the value begins
\* with, whatever the case of the letters, or 0.
ShortMonthNames ==
  <<<<"J", "a", "n">>, <<"F", "e", "b">>, <<"M", "a", "r">>, <<"A", "p", "r">>, <<"M", "a", "y">>, <<"J", "u", "n">>, <<"J", "u", "l">>, <<"A", "u", "g">>, <<"S", "e", "p">>, <<"O", "c", "t">>, <<"N", "o", "v">>, <<"D", "e", "c">>>>
MatchesName(value, name) ==
  /\ Len(value) >= Len(name)
  /\ \A i \in 1..Len(name) : ToLower(value[i]) = ToLower(name[i])
LookupMonth(value) ==
  IF \E m \in 1..12 : MatchesName(value, ShortMonthNames[m])
  THEN CHOOSE m \in 1..12 : MatchesName(value, ShortMonthNames[m])
  ELSE 0

\* daysIn(month, year).
IsLeap(year) == year % 4 = 0 /\ (year % 100 /= 0 \/ year % 400 = 0)
DaysIn(month, year) ==
  IF month = 2 THEN (IF IsLeap(year) THEN 29 ELSE 28)
  ELSE IF month \in {4, 6, 9, 11} THEN 30 ELSE 31

\* The layouts the parsers give to time.Parse: the text, and the chunks
\* nextStdChunk cuts it into, each a literal text and the element after it.
Chunk(prefix, std) == [prefix |-> prefix, std |-> std]
LayoutModify ==
  [text |-> <<"2", "0", "0", "6", "0", "1", "0", "2", "1", "5", "0", "4", "0", "5">>,
   chunks |-> <<Chunk(<<>>, "2006"), Chunk(<<>>, "01"), Chunk(<<>>, "02"),
                Chunk(<<>>, "15"), Chunk(<<>>, "04"), Chunk(<<>>, "05")>>]
LayoutDirUS ==
  [text |-> <<"0", "1", "-", "0", "2", "-", "0", "6", " ", " ", "0", "3", ":", "0", "4", "P", "M">>,
   chunks |-> <<Chunk(<<>>, "01"), Chunk(<<"-">>, "02"), Chunk(<<"-">>, "06"),
                Chunk(<<" ", " ">>, "03"), Chunk(<<":">>, "04"), Chunk(<<>>, "PM")>>]
LayoutDirISO ==
  [text |-> <<"2", "0", "0", "6", "-", "0", "1", "-", "0", "2", " ", " ", "1", "5", ":", "0", "4">>,
   chunks |-> <<Chunk(<<>>, "2006"), Chunk(<<"-">>, "01"), Chunk(<<"-">>, "02"),
                Chunk(<<" ", " ">>, "15"), Chunk(<<":">>, "04")>>]
LayoutLs ==
  [text |-> <<"_", "2", " ", "J", "a", "n", " ", "0", "6", " ", "1", "5", ":", "0", "4", " ", "M", "S", "T">>,
   chunks |-> <<Chunk(<<>>, "_2"), Chunk(<<" ">>, "Jan"), Chunk(<<" ">>, "06"),
                Chunk(<<" ">>, "15"), Chunk(<<":">>, "04"), Chunk(<<" ">>, "MST")>>]

\* The state of time.Parse: the rest of the value, the fields read so far,
\* and whether an error was met.
ParseStart(value) ==
  [ok |-> TRUE, val |-> value, year |-> 0, month |-> 1, day |-> 1, hour |-> 0,
   min |-> 0, sec |-> 0, nsec |-> 0, pm |-> FALSE, am |-> FALSE]
ParseFailed(st) == [st EXCEPT !.ok = FALSE]

\* A field read by getnum and checked against its range.
SetNum(st, field, r, lo, hi) ==
  IF r.ok /\ lo <= r.n /\ r.n <= hi
  THEN [st EXCEPT ![field] = r.n, !.val = r.rest]
  ELSE ParseFailed(st)

\* stdYear: two characters read by atoi; 69 and more are years of the 1900s
\* and the others years of the 2000s.
SetYear2(st, r) ==
  IF ~r.ok THEN ParseFailed(st)
  ELSE [st EXCEPT !.year = IF r.val >= 69 THEN r.val + 1900 ELSE r.val + 2000,
                  !.val = SubSeq(st.val, 3, Len(st.val))]
\* stdLongYear: four characters, the first a digit, read by atoi.
SetYear4(st, r) ==
  IF ~r.ok THEN ParseFailed(st)
  ELSE [st EXCEPT !.year = r.val, !.val = SubSeq(st.val, 5, Len(st.val))]
\* stdMonth.
SetMonthName(st, m) ==
  IF m = 0 THEN ParseFailed(st)
  ELSE [st EXCEPT !.month = m, !.val = SubSeq(st.val, 4, Len(st.val))]

\* The digits of a fraction of a second that follow the seconds when the
\* layout has no element for them, and their value in nanoseconds.
FractionLen(s) ==
  IF Len(s) >= 2 /\ s[1] \in {".", ","} /\ IsDigitAt(s, 1)
  THEN LET stops == {n \in 2..Len(s) : ~IsDigitAt(s, n)}
       IN  CHOOSE n \in stops : \A k \in stops : n <= k
  ELSE 0
RECURSIVE Pow10(_)
Pow10(n) == IF n = 0 THEN 1 ELSE 10 * Pow10(n - 1)
Nanoseconds(digits) ==
  IF Len(digits) >= 9 THEN DecimalValue(SubSeq(digits, 1, 9))
  ELSE DecimalValue(digits) * Pow10(9 - Len(digits))
SetSecond(st, n) ==
  IF ~st.ok THEN st
  ELSE [st EXCEPT !.nsec = IF n = 0 THEN 0 ELSE Nanoseconds(SubSeq(st.val, 2, n)),
                  !.val = SubSeq(st.val, n + 1, Len(st.val))]

\* One element of a layout read from the value.  The zone "MST" is read for
\* the values setTime makes, which end in "GMT": "GMT" and "UTC" are the time
\* zone of offset 0.
ParseStd(std, st) ==
  CASE std = "2006" ->
         IF Len(st.val) < 4 \/ ~IsDigitAt(st.val, 0) THEN ParseFailed(st)
         ELSE SetYear4(st, TimeAtoi(SubSeq(st.val, 1, 4)))
    [] std = "06" ->
         IF Len(st.val) < 2 THEN ParseFailed(st)
         ELSE SetYear2(st, TimeAtoi(SubSeq(st.val, 1, 2)))
    [] std = "Jan" -> SetMonthName(st, LookupMonth(st.val))
    [] std = "01" -> SetNum(st, "month", GetNum(st.val, TRUE), 1, 12)
    [] std = "02" -> SetNum(st, "day", GetNum(st.val, TRUE), 0, 99)
    [] std = "_2" -> SetNum(st, "day",
                            GetNum(IF st.val /= <<>> /\ st.val[1] = " "
                                   THEN SubSeq(st.val, 2, Len(st.val)) ELSE st.val,
                                   FALSE), 0, 99)
    [] std = "15" -> SetNum(st, "hour", GetNum(st.val, FALSE), 0, 23)
    [] std = "03" -> SetNum(st, "hour", GetNum(st.val, TRUE), 0, 12)
    [] std = "04" -> SetNum(st, "min", GetNum(st.val, TRUE), 0, 59)
    [] std = "05" ->
         SetSecond(SetNum(st, "sec", GetNum(st.val, TRUE), 0, 59),
                   FractionLen(SetNum(st, "sec", GetNum(st.val, TRUE), 0, 59).val))
    [] std = "PM" ->
         IF Len(st.val) >= 2 /\ SubSeq(st.val, 1, 2) = <<"P", "M">>
         THEN [st EXCEPT !.pm = TRUE, !.val = SubSeq(st.val, 3, Len(st.val))]
         ELSE IF Len(st.val) >= 2 /\ SubSeq(st.val, 1, 2) = <<"A", "M">>
         THEN [st EXCEPT !.am = TRUE, !.val = SubSeq(st.val, 3, Len(st.val))]
         ELSE ParseFailed(st)
    [] std = "MST" ->
         IF Len(st.val) >= 3 /\ SubSeq(st.val, 1, 3) \in {<<"G", "M", "T">>, <<"U", "T", "C">>}
         THEN [st EXCEPT !.val = SubSeq(st.val, 4, Len(st.val))]
         ELSE ParseFailed(st)

\* One chunk of a layout: its literal text, then its element.
ParseAfterSkip(std, st, sk) ==
  IF ~sk.ok THEN ParseFailed(st) ELSE ParseStd(std, [st EXCEPT !.val = sk.rest])

\* The chunks from the i-th on.
RECURSIVE ParseChunks(_, _, _)
ParseChunks(chunks, i, st) ==
  IF ~st.ok \/ i > Len(chunks) THEN st
  ELSE ParseChunks(chunks, i + 1,
                   ParseAfterSkip(chunks[i].std, st, Skip(st.val, chunks[i].prefix)))

\* The end of time.Parse: no text may be left, PM adds twelve hours to an hour
\* before 12 and AM makes the hour 12 the hour 0, and the day has to be a day
\* of its month.  On an error the time is Time{}.
AdjustedHour(st) ==
  IF st.pm /\ st.hour < 12 THEN st.hour + 12
  ELSE IF st.am /\ st.hour = 12 THEN 0 ELSE st.hour
ParseFinish(st) ==
  IF st.ok /\ st.val = <<>> /\ st.day >= 1 /\ st.day <= DaysIn(st.month, st.year)
  THEN [ok |-> TRUE,
        t |-> Date(st.year, st.month, st.day, AdjustedHour(st), st.min, st.sec,
                   st.nsec)]
  ELSE [ok |-> FALSE, t |-> ZeroTime]

\* time.Parse(layout, value).
TimeParse(layout, value) ==
  ParseFinish(ParseChunks(layout.chunks, 1, ParseStart(value)))

\* strconv.Itoa of a number that is not negative.
RECURSIVE Itoa(_)
Itoa(n) ==
  LET d == <<"0", "1", "2", "3", "4", "5", "6", "7", "8", "9">>[(n % 10) + 1]
  IN  IF n < 10 THEN <<d>> ELSE Itoa(n \div 10) \o <<d>>

\* The types of an Entry, and the Entry of a file system object; ZeroEntry is
\* &Entry{}.
EntryTypeFile == 0
EntryTypeFolder == 1
EntryTypeLink == 2
Entry(name, type, size, time) ==
  [Name |-> name, Type |-> type, Size |-> size, Time |-> time]
ZeroEntry == Entry(<<>>, EntryTypeFile, 0, ZeroTime)

\* What a parser returns: the entry and the error.  The errors are nil,
\* errUnsupportedListLine, the error of time.Parse, the error of
\* strconv.ParseUint, and the two errors parse.go makes with errors.New.  With
\* an error the entry returned is nil, which is shown as ZeroEntry.
Parsed(e) == [err |-> "nil", e |-> e]
Failed(err) == [err |-> err, e |-> ZeroEntry]
errUnsupportedListLine == "Unsupported LIST line"
errUnknownEntryType == "Unknown entry type"
errInvalidYear == "Invalid year format in time string"
errTimeParse == "time.ParseError"
errNumError == "strconv.NumError"

\* Entry.setSize: the size is what strconv.ParseUint(str, 0, 64) returns, also
\* when that is an error.
setSizeOf(e, r) ==
  [err |-> IF r.ok THEN "nil" ELSE errNumError, e |-> [e EXCEPT !.Size = r.val]]
setSize(e, str) == setSizeOf(e, ParseUint0(str))

\* Entry.setTime, thisYear being the year of time.Now(): the three fields are
\* the month, the day and either a time of this year or a year of four
\* characters, of which the last two are given to time.Parse.
setTimeOf(e, r) ==
  [err |-> IF r.ok THEN "nil" ELSE errTimeParse, e |-> [e EXCEPT !.Time = r.t]]
setTime(e, fields, thisYear) ==
  IF Contains(fields[3], <<":">>)
  THEN setTimeOf(e, TimeParse(LayoutLs,
                   fields[2] \o <<" ">> \o fields[1] \o <<" ">>
                     \o Slice(Itoa(thisYear), 2, 4) \o <<" ">> \o fields[3] \o <<" ", "G", "M", "T">>))
  ELSE IF Len(fields[3]) /= 4 THEN [err |-> errInvalidYear, e |-> e]
  ELSE setTimeOf(e, TimeParse(LayoutLs,
                   fields[2] \o <<" ">> \o fields[1] \o <<" ">>
                     \o Slice(fields[3], 2, 4) \o <<" ", "0", "0", ":", "0", "0", " ", "G", "M", "T">>))

\* One fact of a line of RFC 3659: the key and the value.
RECURSIVE RFC3659Facts(_, _, _)
RFC3659Modify(facts, i, e, r) ==
  IF ~r.ok THEN Failed(errTimeParse)
  ELSE RFC3659Facts(facts, i + 1, [e EXCEPT !.Time = r.t])
\* A faulty reading of a fact, against which the order of the facts is tested:
\* the fact type also sets the size to 0.
RFC3659FactTypeResets(facts, i, e, key, value) ==
  IF key = <<"m", "o", "d", "i", "f", "y">> THEN RFC3659Modify(facts, i, e, TimeParse(LayoutModify, value))
  ELSE IF key = <<"t", "y", "p", "e">>
  THEN RFC3659Facts(facts, i + 1,
         [e EXCEPT !.Size = 0,
                   !.Type = IF value \in {<<"d", "i", "r">>, <<"c", "d", "i", "r">>, <<"p", "d", "i", "r">>} THEN EntryTypeFolder
                            ELSE IF value = <<"f", "i", "l", "e">> THEN EntryTypeFile ELSE @])
  ELSE IF key = <<"s", "i", "z", "e">> THEN RFC3659Facts(facts, i + 1, setSize(e, value).e)
  ELSE RFC3659Facts(facts, i + 1, e)
RFC3659Fact(facts, i, e, key, value) ==
  IF key = <<"m", "o", "d", "i", "f", "y">> THEN RFC3659Modify(facts, i, e, TimeParse(LayoutModify, value))
  ELSE IF key = <<"t", "y", "p", "e">>
  THEN RFC3659Facts(facts, i + 1,
         [e EXCEPT !.Type = IF value \in {<<"d", "i", "r">>, <<"c", "d", "i", "r">>, <<"p", "d", "i", "r">>} THEN EntryTypeFolder
                            ELSE IF value = <<"f", "i", "l", "e">> THEN EntryTypeFile ELSE @])
  ELSE IF key = <<"s", "i", "z", "e">> THEN RFC3659Facts(facts, i + 1, setSize(e, value).e)
  ELSE RFC3659Facts(facts, i + 1, e)
RFC3659Field(facts, i, e, eq) ==
  IF eq < 1 THEN Failed(errUnsupportedListLine)
  ELSE RFC3659Fact(facts, i, e, Slice(facts[i], 0, eq),
                   Slice(facts[i], eq + 1, Len(facts[i])))
\* The loop over the facts, from the i-th on.
RFC3659Facts(facts, i, e) ==
  IF i > Len(facts) THEN Parsed(e)
  ELSE RFC3659Field(facts, i, e, Index(facts[i], <<"=">>))

\* parseRFC3659ListLine: a line with a semicolon before its first space.  The
\* name is what follows that space, and the facts are what Split finds in the
\* line up to, and without, the character before that space.
parseRFC3659At(line, iSemicolon, iWhitespace) ==
  IF iSemicolon < 0 \/ iSemicolon > iWhitespace THEN Failed(errUnsupportedListLine)
  ELSE RFC3659Facts(Split(Slice(line, 0, iWhitespace - 1), <<";">>), 1,
                    [ZeroEntry EXCEPT !.Name = Slice(line, iWhitespace + 1, Len(line))])
parseRFC3659ListLine(line) ==
  parseRFC3659At(line, Index(line, <<";">>), Index(line, <<" ">>))

\* The end of the three branches of parseLsListLine: the time, then the name.
LsTimed(r, name) ==
  IF r.err /= "nil" THEN Failed(r.err) ELSE Parsed([r.e EXCEPT !.Name = name])
\* The branch of a file of the second shape: the size, then the time.
LsSized(r, fields, thisYear) ==
  IF r.err /= "nil" THEN Failed(r.err)
  ELSE LsTimed(setTime(r.e, SubSeq(fields, 5, 7), thisYear), r.e.Name)
\* A faulty end of the switch, against which the name is tested: the name
\* begins with the eighth token.
LsTypedNameFromEighth(r, fields, thisYear) ==
  IF r.err /= "nil" THEN Failed(r.err)
  ELSE LsTimed(setTime(r.e, SubSeq(fields, 6, 8), thisYear),
               Join(SubSeq(fields, 8, Len(fields)), <<" ">>))

\* The switch on the first character of the line, which ends in the time and
\* the name.
LsTyped(r, fields, thisYear) ==
  IF r.err /= "nil" THEN Failed(r.err)
  ELSE LsTimed(setTime(r.e, SubSeq(fields, 6, 8), thisYear),
               Join(SubSeq(fields, 9, Len(fields)), <<" ">>))

\* parseLsListLine on the fields of the line.
parseLsFields(fields, thisYear) ==
  IF Len(fields) >= 7 /\ fields[2] = <<"f", "o", "l", "d", "e", "r">> /\ fields[3] = <<"0">>
  THEN LsTimed(setTime(Entry(Join(SubSeq(fields, 7, Len(fields)), <<" ">>),
                             EntryTypeFolder, 0, ZeroTime),
                       SubSeq(fields, 4, 6), thisYear),
               Join(SubSeq(fields, 7, Len(fields)), <<" ">>))
  ELSE IF Len(fields) < 8 THEN Failed(errUnsupportedListLine)
  ELSE IF fields[2] = <<"0">>
  THEN LsSized(setSize(Entry(Join(SubSeq(fields, 8, Len(fields)), <<" ">>),
                             EntryTypeFile, 0, ZeroTime), fields[3]),
               fields, thisYear)
  ELSE IF Len(fields) < 9 THEN Failed(errUnsupportedListLine)
  ELSE IF fields[1][1] = "-"
  THEN LsTyped(setSize([ZeroEntry EXCEPT !.Type = EntryTypeFile], fields[5]),
               fields, thisYear)
  ELSE IF fields[1][1] = "d"
  THEN LsTyped(Parsed([ZeroEntry EXCEPT !.Type = EntryTypeFolder]), fields, thisYear)
  ELSE IF fields[1][1] = "l"
  THEN LsTyped(Parsed([ZeroEntry EXCEPT !.Type = EntryTypeLink]), fields, thisYear)
  ELSE Failed(errUnknownEntryType)

\* parseLsListLine.
parseLsListLine(line, thisYear) == parseLsFields(Fields(line), thisYear)

\* dirTimeFormats.
dirTimeFormats == <<LayoutDirUS, LayoutDirISO>>

\* The loop of parseDirListLine over the formats, from the i-th on: a format
\* is tried on a line longer than the format only, and the first that parses
\* ends the loop.  t is e.Time, failed tells whether err is an error, and line
\* is what is left of the line.
RECURSIVE DirFormats(_, _, _, _)
DirFormatTried(i, line, r) ==
  IF r.ok
  THEN [failed |-> FALSE, t |-> r.t,
        line |-> Slice(line, Len(dirTimeFormats[i].text), Len(line))]
  ELSE DirFormats(i + 1, line, r.t, TRUE)
DirFormats(i, line, t, failed) ==
  IF i > Len(dirTimeFormats) THEN [failed |-> failed, t |-> t, line |-> line]
  ELSE IF Len(line) > Len(dirTimeFormats[i].text)
  THEN DirFormatTried(i, line,
         TimeParse(dirTimeFormats[i], Slice(line, 0, Len(dirTimeFormats[i].text))))
  ELSE DirFormats(i + 1, line, t, failed)

\* The part of parseDirListLine after the time: "<DIR>" makes a folder, and
\* otherwise the text before the first space is the size of a file, in
\* decimal; the name is the rest without its leading spaces.
DirSized(t, line, space, r) ==
  IF ~r.ok THEN Failed(errUnsupportedListLine)
  ELSE Parsed(Entry(TrimLeft(Slice(line, space, Len(line)), {" "}),
                    EntryTypeFile, r.val, t))
DirRest(t, line, space) ==
  IF HasPrefix(line, <<"<", "D", "I", "R", ">">>)
  THEN Parsed(Entry(TrimLeft(TrimPrefix(line, <<"<", "D", "I", "R", ">">>), {" "}), EntryTypeFolder, 0, t))
  ELSE IF space = -1 THEN Failed(errUnsupportedListLine)
  ELSE DirSized(t, line, space, ParseUint10(Slice(line, 0, space)))
DirAfterTime(d, line) ==
  IF d.failed THEN Failed(errUnsupportedListLine)
  ELSE DirRest(d.t, line, Index(line, <<" ">>))
DirTimed(d) == DirAfterTime(d, TrimLeft(d.line, {" "}))

\* parseDirListLine.
parseDirListLine(line) == DirTimed(DirFormats(1, line, ZeroTime, FALSE))

\* parseListLine: the parsers of listLineParsers in their order; the result of
\* the first whose error is not errUnsupportedListLine is returned.
ListLineTried(r, next) == IF r.err /= errUnsupportedListLine THEN r ELSE next
parseListLine(line, thisYear) ==
  ListLineTried(parseRFC3659ListLine(line),
    ListLineTried(parseLsListLine(line, thisYear),
      ListLineTried(parseDirListLine(line), Failed(errUnsupportedListLine))))

\* The years time.Now() may show.
ThisYears == {2026, 2070}

----------------------------------------------------------------------------
(* List's use of the parsers.                                              *)

\* The parser List chose, applied to a line.
List_parse(parseFunc, line, thisYear) ==
  IF parseFunc = "parseRFC3659ListLine" THEN parseRFC3659ListLine(line)
  ELSE parseListLine(line, thisYear)

\* A faulty loop of List, against which the omission of lines is tested: it
\* keeps what the parser returned for every line.
List_appendAlways(es, r) == Append(es, r.e)

\* The body of List's loop: the entry is kept when the parser returned no
\* error.
List_append(es, r) == IF r.err = "nil" THEN Append(es, r.e) ELSE es

\* The lines of a listing: one of each format, and one of none.
ListLines ==
  {<<"s", "i", "z", "e", "=", "1", ";", " ", "a">>, <<"-", "r", " ", "1", " ", "u", " ", "g", " ", "2", " ", "J", "a", "n", " ", "1", " ", "2", "0", "2", "0", " ", "b">>, <<"0", "1", "-", "0", "1", "-", "2", "0", " ", " ", "1", "0", ":", "0", "0", "A", "M", " ", "<", "D", "I", "R", ">", " ", "c">>, <<"x">>}

----------------------------------------------------------------------------
(* The session's operations.  An operation that takes one exchange with   *)
(* the server is one action; an operation with a data connection is a      *)
(* sequence of steps, one for each part of its code between two waits on   *)
(* the caller or the data connection.  Return hands the result to the      *)
(* caller, who may then start the next operation.                          *)

Init ==
  /\ NoSession /\ NoCall
  /\ pin = PortInput("none", FALSE, NoReply, NoReply)
  /\ pout = NoResult

\* The caller calls DialTimeout.
DialTimeoutCall ==
  /\ conn = "nil" /\ op = "idle"
  /\ \E dialOk \in BOOLEAN, h \in Hosts, greeting \in Replies(StatusReady),
        featRep \in FeatReplies, reinRep \in Replies(StatusReady),
        quitOk \in BOOLEAN, closeOk \in BOOLEAN :
       LET r == DialTimeout(dialOk, h, greeting, featRep, reinRep, quitOk, closeOk)
       IN  /\ conn' = r.sock
           /\ host' = r.host
           /\ features' = r.features
           /\ mlst' = r.mlst
           /\ log' = r.ev
           /\ ret' = Returned("DialTimeout", r.err, IF r.err THEN "error" ELSE "nil")
  /\ op' = "DialTimeout" /\ pc' = "returned"
  /\ UNCHANGED <<unepsv, offset, dconn, lines, entries, stream, nops, dials, portVars>>

\* The caller calls Login.
LoginCall ==
  /\ conn = "open" /\ op = "idle"
  /\ \E userRep \in Replies(StatusLoggedIn) \cup Replies(StatusUserOK) \cup {WriteFails},
        passRep \in Replies(StatusLoggedIn), typeRep \in Replies(StatusCommandOK),
        optsRep \in Replies(StatusCommandOK) \cup Replies(StatusCommandNotImplemented) :
       LET r == Login(features, userRep, passRep, typeRep, optsRep)
       IN  /\ log' = r.ev
           /\ ret' = Returned("Login", r.err, IF r.err THEN "error" ELSE "nil")
  /\ op' = "Login" /\ pc' = "returned"
  /\ UNCHANGED <<sessionVars, offset, dconn, lines, entries, stream, nops, dials,
                 portVars>>

\* The caller calls Close on the session.
CloseCall ==
  /\ conn = "open" /\ op = "idle"
  /\ \E reinRep \in Replies(StatusReady) \cup {WriteFails},
        quitOk \in BOOLEAN, closeOk \in BOOLEAN :
       LET r == client_Close(reinRep, quitOk, closeOk)
       IN  /\ log' = r.ev
           /\ ret' = Returned("Close", r.err /= "nil", r.err)
  /\ conn' = "closed"
  /\ op' = "Close" /\ pc' = "returned"
  /\ UNCHANGED <<host, mlst, unepsv, features, offset, dconn, lines, entries,
                 stream, nops, dials, portVars>>

\* An operation that is one command with one expected reply code.
SimpleCmd(name, verb, expected) ==
  /\ conn = "open" /\ op = "idle"
  /\ \E rep \in Replies(expected) \cup {WriteFails} :
       LET r == cmd(expected, verb, rep)
       IN  /\ log' = r.ev
           /\ ret' = Returned(name, r.err, IF r.err THEN "error" ELSE "nil")
  /\ op' = name /\ pc' = "returned"
  /\ UNCHANGED <<sessionVars, offset, dconn, lines, entries, stream, nops, dials,
                 portVars>>

ChangeDirCall == SimpleCmd("ChangeDir", "CWD", StatusRequestedFileActionOK)
ChangeDirToParentCall == SimpleCmd("ChangeDirToParent", "CDUP", StatusRequestedFileActionOK)
RemoveCall == SimpleCmd("Remove", "DELE", StatusRequestedFileActionOK)
MakeDirCall == SimpleCmd("MakeDir", "MKD", StatusPathCreated)
RemoveDirCall == SimpleCmd("RemoveDir", "RMD", StatusRequestedFileActionOK)
NoOpCall == SimpleCmd("NoOp", "NOOP", StatusCommandOK)

\* A faulty Rename, against which the check of the reply to RNFR is tested: it
\* goes on to RNTO whatever that reply.
RenameUnchecked(fromRep, toRep) ==
  LET from == cmd(AnyCode, "RNFR", fromRep)
      to == cmd(StatusRequestedFileActionOK, "RNTO", toRep)
  IN  IF from.err THEN [err |-> TRUE, why |-> "RNFR", ev |-> from.ev]
      ELSE [err |-> to.err, why |-> IF to.err THEN "RNTO" ELSE "nil",
            ev |-> from.ev \o to.ev]

\* client.Rename: RNFR, which has to be answered with 350, then RNTO, which has
\* to be answered with 250; why names the command whose error is returned.
Rename(fromRep, toRep) ==
  LET from == cmd(StatusRequestFilePending, "RNFR", fromRep)
      to == cmd(StatusRequestedFileActionOK, "RNTO", toRep)
  IN  IF from.err THEN [err |-> TRUE, why |-> "RNFR", ev |-> from.ev]
      ELSE [err |-> to.err, why |-> IF to.err THEN "RNTO" ELSE "nil",
            ev |-> from.ev \o to.ev]

\* The caller calls Rename.
RenameCall ==
  /\ conn = "open" /\ op = "idle"
  /\ \E fromRep \in Replies(StatusRequestFilePending) \cup {WriteFails},
        toRep \in Replies(StatusRequestedFileActionOK) \cup {WriteFails} :
       LET r == Rename(fromRep, toRep)
       IN  /\ log' = r.ev
           /\ ret' = Returned("Rename", r.err, r.why)
  /\ op' = "Rename" /\ pc' = "returned"
  /\ UNCHANGED <<sessionVars, offset, dconn, lines, entries, stream, nops, dials,
                 portVars>>

\* The operation has returned; the caller takes its result.
Return ==
  /\ pc = "returned"
  /\ op' = "idle" /\ pc' = "idle" /\ offset' = 0
  /\ dconn' = "none" /\ lines' = <<>> /\ entries' = <<>>
  /\ log' = <<>> /\ ret' = NoReturn
  /\ UNCHANGED <<sessionVars, stream, nops, dials, portVars>>

----------------------------------------------------------------------------
(* The operations with a data connection.  Each is a sequence of steps:    *)
(* the parts of cmdDataConnFrom (the data connection, REST, the command    *)
(* and its preliminary reply), then the operation's use of the data        *)
(* connection.                                                             *)

\* The caller calls an operation that uses a data connection.  (One download
\* stream per session is followed, and it is the session's last operation.)
BeginCall(name, off, first) ==
  /\ conn = "open" /\ op = "idle" /\ nops < MaxOps /\ stream.conn = "none"
  /\ op' = name /\ pc' = first /\ offset' = off
  /\ nops' = nops + 1
  /\ UNCHANGED <<sessionVars, dconn, lines, entries, stream, log, ret, dials,
                 portVars>>

NameListCall == BeginCall("NameList", 0, "open")
ListCall == BeginCall("List", 0, "open")
DeleteCall == BeginCall("Delete", 0, "open")
UploadCall == BeginCall("Upload", 0, "prepare")
\* Retr and Stor are RetrFrom and StorFrom with offset 0.
RetrFromCall == \E off \in Offsets : BeginCall("RetrFrom", off, "open")
StorFromCall == \E off \in Offsets : BeginCall("StorFrom", off, "open")

\* The replies to a command whose error the caller ignores.
IgnoredReplies(code) == {Reply(c, <<"x">>) : c \in {code} \cup OtherCodes}

\* Upload, up to its call of Stor: MKD and CWD, whose errors it ignores.
UploadPrepare ==
  /\ op = "Upload" /\ pc = "prepare"
  /\ \E mkdRep \in IgnoredReplies(StatusPathCreated),
        cwdRep \in IgnoredReplies(StatusRequestedFileActionOK) :
       log' = log \o cmd(StatusPathCreated, "MKD", mkdRep).ev
                  \o cmd(StatusRequestedFileActionOK, "CWD", cwdRep).ev
  /\ pc' = "open"
  /\ UNCHANGED <<sessionVars, op, offset, dconn, lines, entries, stream, nops, ret,
                 dials, portVars>>

\* cmdDataConnFrom, its call of openDataConn: on an error the operation
\* returns it.
OpenDataConnStep ==
  /\ pc = "open"
  /\ \E er \in SomeEpsvReplies, pr \in SomePasvReplies, dialOk \in BOOLEAN :
       \E r \in {openDataConn(unepsv, host, er, pr, dialOk)} :
           /\ unepsv' = r.unepsv
           /\ log' = log \o r.ev
           /\ dials' = dials \cup r.dial
           /\ dconn' = IF r.out = "ok" THEN "open" ELSE "none"
           /\ pc' = CASE r.out = "panic" -> "panic"
                      [] r.out = "err" -> "returned"
                      [] r.out = "ok" -> IF offset /= 0 THEN "rest" ELSE "command"
           /\ ret' = CASE r.out = "panic" -> Returned(op, TRUE, "panic")
                       [] r.out = "err" -> Returned(op, TRUE, "openDataConn")
                       [] r.out = "ok" -> ret
  /\ UNCHANGED <<conn, host, mlst, features, op, offset, lines, entries, stream,
                 nops, portVars>>

\* cmdDataConnFrom with an offset that is not 0: REST, which has to be answered
\* with 350; otherwise the data connection is closed and the operation returns
\* the error.
RestStep ==
  /\ pc = "rest"
  /\ \E rep \in Replies(StatusRequestFilePending) \cup {WriteFails} :
       LET r == cmdDataConnFrom_rest(rep)
       IN  /\ log' = log \o r.ev
           /\ dconn' = r.conn
           /\ IF r.err
              THEN pc' = "returned" /\ ret' = Returned(op, TRUE, "REST")
              ELSE pc' = "command" /\ UNCHANGED ret
  /\ UNCHANGED <<sessionVars, op, offset, lines, entries, stream, nops, dials,
                 portVars>>

\* cmdDataConnFrom, the command and its preliminary reply, which has to be 125
\* or 150; otherwise the data connection is closed and the operation returns
\* the error.  With the data connection RetrFrom returns a stream to its
\* caller; the other operations go on to use it.
CommandStep ==
  /\ pc = "command"
  /\ \E rep \in Replies(StatusAboutToSend) \cup Replies(StatusAlreadyOpen)
                 \cup {WriteFails} :
       LET r == cmdDataConnFrom_command(Verb(op), rep)
       IN  /\ log' = log \o r.ev
           /\ IF r.err
              THEN /\ dconn' = r.conn
                   /\ pc' = "returned"
                   /\ ret' = [Returned(op, TRUE, "command")
                                EXCEPT !.code = r.code, !.msg = r.msg]
                   /\ UNCHANGED stream
              ELSE IF op = "RetrFrom"
              THEN /\ stream' = [NoStream EXCEPT !.conn = r.conn]
                   /\ dconn' = "none"
                   /\ pc' = "returned"
                   /\ ret' = Returned(op, FALSE, "nil")
              ELSE /\ dconn' = r.conn
                   /\ pc' = IF op \in {"NameList", "Delete", "List"} THEN "scan"
                            ELSE "copy"
                   /\ UNCHANGED <<stream, ret>>
  /\ UNCHANGED <<sessionVars, op, offset, lines, entries, nops, dials, portVars>>

\* One turn of the scanner loop of NameList, List and Delete: a line, the end
\* of the data, or a read error.  NameList keeps the line and List the entry
\* its parser makes of it, if it makes one (the parser reads the clock, which
\* shows the year y).  Delete removes a line's file when the line contains the
\* file name, and removes the directory when the loop ends without a line; it
\* ignores the errors of both.  After the loop the operation returns the
\* scanner's error, once its deferred response.Close has run.
ScanStep ==
  /\ pc = "scan"
  /\ \/ \E l \in IF op = "List" THEN ListLines ELSE Lines,
           y \in IF op = "List" THEN ThisYears ELSE {2026},
           rep \in IgnoredReplies(StatusRequestedFileActionOK) :
          /\ Len(lines) < MaxLines
          /\ lines' = Append(lines, l)
          /\ entries' = IF op = "NameList" THEN Append(entries, l)
                        ELSE IF op = "List"
                        THEN List_append(entries,
                                         List_parse(List_command(mlst).parseFunc, l, y))
                        ELSE entries
          /\ log' = log \o <<Ev("DREAD", "", 0)>>
                        \o IF op = "Delete" /\ Contains(l, FileName)
                           THEN cmd(StatusRequestedFileActionOK, "DELE", rep).ev
                           ELSE <<>>
          /\ UNCHANGED <<pc, ret>>
     \/ \E readOk \in BOOLEAN, rep \in IgnoredReplies(StatusRequestedFileActionOK) :
          /\ log' = log \o <<Ev(IF readOk THEN "DEOF" ELSE "DREADERR", "", 0)>>
                        \o IF op = "Delete" /\ lines = <<>>
                           THEN cmd(StatusRequestedFileActionOK, "RMD", rep).ev
                           ELSE <<>>
          /\ ret' = Returned(op, ~readOk, IF readOk THEN "nil" ELSE "scanner")
          /\ pc' = "close"
          /\ UNCHANGED <<lines, entries>>
  /\ UNCHANGED <<sessionVars, op, offset, dconn, stream, nops, dials, portVars>>

\* The deferred response.Close of NameList, List and Delete, whose error is
\* dropped.
DeferredCloseStep ==
  /\ pc = "close"
  /\ \E closeOk \in BOOLEAN, rep \in Replies(StatusClosingDataConnection) :
       log' = log \o response_Close(dconn, closeOk, rep).ev
  /\ dconn' = "closed"
  /\ pc' = "returned"
  /\ UNCHANGED <<sessionVars, op, offset, lines, entries, stream, nops, ret, dials,
                 portVars>>

\* StorFrom after cmdDataConnFrom.  Upload returns the error of Stor, and goes
\* on when there is none.
CopyStep ==
  /\ pc = "copy"
  /\ \E copyOk \in BOOLEAN, rep \in Replies(StatusClosingDataConnection) :
       LET r == StorFromCopy(copyOk, rep)
       IN  /\ log' = log \o r.ev
           /\ IF op = "Upload" /\ ~r.err
              THEN pc' = "rewind" /\ ret' = ret
              ELSE /\ pc' = "returned"
                   /\ ret' = Returned(op, r.err, IF r.err THEN "StorFrom" ELSE "nil")
  /\ dconn' = "closed"
  /\ UNCHANGED <<sessionVars, op, offset, lines, entries, stream, nops, dials,
                 portVars>>

\* The end of Upload: back to the root directory.
UploadRewind ==
  /\ op = "Upload" /\ pc = "rewind"
  /\ \E rep \in Replies(StatusRequestedFileActionOK) :
       LET r == cmd(StatusRequestedFileActionOK, "CWD", rep)
       IN  /\ log' = log \o r.ev
           /\ ret' = Returned(op, r.err, IF r.err THEN "ChangeDir" ELSE "nil")
  /\ pc' = "returned"
  /\ UNCHANGED <<sessionVars, op, offset, dconn, lines, entries, stream, nops, dials,
                 portVars>>

\* The caller calls Read on the stream Retr returned: data, the end of the
\* data, or an error (the only outcome once the stream is closed).
StreamReadCall ==
  /\ op = "idle" /\ stream.conn /= "none" /\ stream.reads < MaxStreamCalls
  /\ \E got \in {"data", "eof", "error"} :
       /\ stream.conn = "closed" => got = "error"
       /\ stream' = [stream EXCEPT !.reads = @ + 1, !.last = got]
       /\ log' = <<Ev(CASE got = "data" -> "DREAD" [] got = "eof" -> "DEOF"
                        [] got = "error" -> "DREADERR", "", 0)>>
       /\ ret' = Returned("response.Read", got /= "data",
                          IF got = "data" THEN "nil" ELSE got)
  /\ op' = "response.Read" /\ pc' = "returned"
  /\ UNCHANGED <<sessionVars, offset, dconn, lines, entries, nops, dials, portVars>>

\* The caller calls Close on the stream Retr returned.
StreamCloseCall ==
  /\ op = "idle" /\ stream.conn /= "none" /\ stream.closes < MaxStreamCalls
  /\ \E closeOk \in BOOLEAN, rep \in Replies(StatusClosingDataConnection) :
       LET r == response_Close(stream.conn, closeOk,
                               IF conn = "open" THEN rep ELSE ReadFails)
       IN  /\ log' = r.ev
           /\ ret' = Returned("response.Close", r.err /= "nil", r.err)
  /\ stream' = [stream EXCEPT !.conn = "closed", !.closes = @ + 1]
  /\ op' = "response.Close" /\ pc' = "returned"
  /\ UNCHANGED <<sessionVars, offset, dconn, lines, entries, nops, dials, portVars>>

Next ==
  \/ DialTimeoutCall \/ LoginCall \/ CloseCall
  \/ ChangeDirCall \/ ChangeDirToParentCall \/ RemoveCall \/ MakeDirCall
  \/ RemoveDirCall \/ NoOpCall \/ RenameCall
  \/ NameListCall \/ DeleteCall \/ UploadCall \/ RetrFromCall \/ StorFromCall
  \/ UploadPrepare \/ OpenDataConnStep \/ RestStep \/ CommandStep
  \/ ScanStep \/ DeferredCloseStep \/ CopyStep \/ UploadRewind
  \/ StreamReadCall \/ StreamCloseCall
  \/ Return

Spec == Init /\ [][Next]_vars

\* A session on which the caller lists directories only: DialTimeout, then
\* List and NameList.
NextList ==
  \/ DialTimeoutCall \/ ListCall \/ NameListCall
  \/ OpenDataConnStep \/ CommandStep \/ ScanStep \/ DeferredCloseStep
  \/ Return

SpecList == Init /\ [][NextList]_vars

----------------------------------------------------------------------------
(* feat applied on its own, to the messages of 211 replies made of a first *)
(* line, some lines between, and a last line.  The message is the text     *)
(* textproto's ReadResponse gives for a multi-line reply: the lines of the *)
(* reply without their "211-" and "211 ", joined by newlines.              *)

\* Lines between the first and the last line of a 211 reply.
MaxFeatLines == 2

\* The lines joined by newlines.
RECURSIVE JoinLines(_)
JoinLines(ls) ==
  IF Len(ls) = 1 THEN ls[1] ELSE ls[1] \o <<"\n">> \o JoinLines(Tail(ls))

\* Sequences of at most n elements of S.
RECURSIVE SeqsUpTo(_, _)
SeqsUpTo(S, n) ==
  IF n = 0 THEN {<<>>}
  ELSE LET shorter == SeqsUpTo(S, n - 1)
       IN  shorter \cup {Append(s, x) : s \in shorter, x \in S}

FeatFirstLines == {<<"F", "e", "a", "t", "u", "r", "e", "s", ":">>, <<" ", "F">>}
FeatLastLines == {<<"E", "n", "d">>, <<" ", "E">>}
FeatMiddleLines ==
  { <<" ", "M", "L", "S", "T">>, <<" ", "S", "I", "Z", "E">>,
    <<" ", "M", "L", "S", "T", " ", "a", " ", "b">>,
    <<" ", " ", "U">>, <<" ", "\t", "U", " ">>, <<"\t", "U">>, <<"U">>,
    <<" ", "U", " ", " ", "x">>, <<" ">>, <<>> }

FeatInput ==
  \/ \E first \in FeatFirstLines, middle \in SeqsUpTo(FeatMiddleLines, MaxFeatLines),
        last \in FeatLastLines, c \in {StatusSystem} \cup OtherCodes :
       pin = PortInput("feat", FALSE,
                       Reply(c, JoinLines(<<first>> \o middle \o <<last>>)), NoReply)
  \/ \E rep \in {WriteFails, ReadFails, Reply(StatusSystem, <<>>)} :
       pin = PortInput("feat", FALSE, rep, NoReply)

ApplyFeat ==
  /\ pin.fn = "feat" /\ pout.out = "none"
  /\ \E r \in {feat(pin.er)} :
       pout' = [fn |-> "feat", features |-> r.features,
                out |-> IF r.err THEN "err" ELSE "ok", ev |-> r.ev]
  /\ UNCHANGED <<pin, sessionVars, callVars>>

InitFeat ==
  /\ NoSession /\ NoCall
  /\ pout = NoResult
  /\ FeatInput

NextFeat == ApplyFeat

SpecFeat == InitFeat /\ [][NextFeat]_vars

----------------------------------------------------------------------------
(* cmd applied on its own, to every pairing of an expected code with a     *)
(* reply.                                                                  *)

\* The codes a caller of cmd expects, and the codes and messages of replies;
\* one message has two lines.
ExpectedCodes ==
  {AnyCode, StatusCommandOK, StatusRequestedFileActionOK, StatusRequestFilePending,
   StatusClosingDataConnection}
ReplyCodes ==
  {StatusCommandOK, StatusCommandNotImplemented, StatusRequestedFileActionOK}
    \cup OtherCodes
ReplyMessages == {<<"x">>, <<"n", "o">>, <<"a", "\n", "b">>}

CmdInput ==
  \E e \in ExpectedCodes :
    \E rep \in {Reply(c, m) : c \in ReplyCodes, m \in ReplyMessages}
                 \cup {WriteFails, ReadFails} :
      pin = [fn |-> "cmd", expected |-> e, verb |-> "NOOP", rep |-> rep]

ApplyCmd ==
  /\ pin.fn = "cmd" /\ pout.out = "none"
  /\ \E r \in {cmd(pin.expected, pin.verb, pin.rep)} :
       pout' = [fn |-> "cmd", code |-> r.code, msg |-> r.msg, error |-> r.error,
                out |-> IF r.err THEN "err" ELSE "ok", ev |-> r.ev]
  /\ UNCHANGED <<pin, sessionVars, callVars>>

InitCmd ==
  /\ NoSession /\ NoCall
  /\ pout = NoResult
  /\ CmdInput

NextCmd == ApplyCmd

SpecCmd == InitCmd /\ [][NextCmd]_vars

----------------------------------------------------------------------------
(* The parsers applied on their own, to lines of the three formats and to  *)
(* lines of none.                                                          *)

\* The most facts of a line of RFC 3659 that is made of any facts.
MaxFacts == 2

\* The names of the entries; one has a space.
EntryNames == {<<"r", "e", "p", "o", "r", "t", ".", "t", "x", "t">>, <<"a", " ", "b">>}

\* Facts: the three of the example, other types and sizes, a time that is
\* none, a fact no parser knows, and a field that is no fact.
ExampleFacts == <<<<"t", "y", "p", "e", "=", "f", "i", "l", "e">>, <<"s", "i", "z", "e", "=", "1", "2", "3", "4", "5">>, <<"m", "o", "d", "i", "f", "y", "=", "2", "0", "2", "0", "0", "1", "0", "1", "1", "2", "0", "0", "0", "0">>>>
Facts ==
  {ExampleFacts[i] : i \in 1..3}
    \cup {<<"t", "y", "p", "e", "=", "d", "i", "r">>, <<"s", "i", "z", "e", "=", "0", "1", "0">>, <<"s", "i", "z", "e", "=", "0", "x", "1", "0">>, <<"s", "i", "z", "e", "=", "x">>, <<"m", "o", "d", "i", "f", "y", "=", "x">>, <<"p", "e", "r", "m", "=", "r">>, <<"x">>}

\* The line "f1=v1;...;fn=vn; name".
RfcLine(facts, name) == Join(facts, <<";">>) \o <<";", " ">> \o name

\* The sequences of the elements of a sequence in every order.
Orderings(s) ==
  {[i \in 1..Len(s) |-> s[p[i]]] :
     p \in {q \in [1..Len(s) -> 1..Len(s)] :
              \A i, j \in 1..Len(s) : q[i] = q[j] => i = j}}

\* The facts of the lines: any facts up to MaxFacts, and the facts of the
\* example in every order.
FactLists == SeqsUpTo(Facts, MaxFacts) \cup Orderings(ExampleFacts)

\* The tokens of the lines in the format of ls: the first token, the size,
\* and the year or time.
ModeTokens == {<<"-", "r", "w">>, <<"d", "r", "w">>, <<"l", "r", "w">>, <<"x", "r", "w">>}
SizeTokens == {<<"1", "2">>, <<"0", "1", "0">>, <<"0", "x", "1", "0">>, <<"x">>}
YearTokens == {<<"1", "9", "5", "0">>, <<"2", "0", "7", "0">>, <<"2", "0", "2", "0">>, <<"a", "b", "2", "0">>, <<"2", "0", "2">>, <<"1", "0", ":", "3", "0">>}
LsGeneric ==
  {<<mode, links, <<"u">>, <<"g">>, size, <<"J", "a", "n">>, <<"1">>, year>> \o Fields(name) :
     mode \in ModeTokens, links \in {<<"1">>, <<"0">>}, size \in SizeTokens,
     year \in YearTokens, name \in EntryNames}
LsFolder ==
  {<<<<"d", "r", "w">>, <<"f", "o", "l", "d", "e", "r">>, <<"0">>, <<"J", "a", "n">>, <<"1">>, year>> \o Fields(name) :
     year \in YearTokens, name \in EntryNames}
LsZero ==
  {<<<<"-", "r", "w">>, <<"0">>, size, <<"u">>, <<"J", "a", "n">>, <<"1">>, year, <<"f">>>> :
     size \in SizeTokens, year \in YearTokens}
LsTokens == LsGeneric \cup LsFolder \cup LsZero \cup {<<<<"a">>, <<"b">>, <<"c">>>>}

\* The lines in the format of DIR: a date and time (of the first format, of
\* the second with an hour of two digits and of one, with a month and with a
\* day that are none, and none at all) and what follows.
DirPrefixes ==
  {<<"0", "1", "-", "0", "1", "-", "2", "0", " ", " ", "1", "0", ":", "0", "0", "A", "M">>, <<"2", "0", "2", "0", "-", "0", "1", "-", "0", "1", " ", " ", "1", "5", ":", "0", "4">>, <<"2", "0", "2", "0", "-", "0", "1", "-", "0", "1", " ", " ", " ", "5", ":", "0", "4">>,
   <<"1", "3", "-", "0", "1", "-", "2", "0", " ", " ", "1", "0", ":", "0", "0", "A", "M">>, <<"0", "2", "-", "3", "0", "-", "2", "0", " ", " ", "1", "0", ":", "0", "0", "A", "M">>, <<>>}
DirRests ==
  {<<" ", "<", "D", "I", "R", ">", " ", "s", "u", "b">>, <<" ", "1", "0", "2", "4", " ", "f", "i", "l", "e", ".", "t", "x", "t">>, <<" ", "0", "1", "0", " ", "f">>, <<" ", "0", "x", "1", "0", " ", "f">>, <<" ", "x", " ", "f">>, <<"<", "D", "I", "R", ">", "x">>,
   <<"5", " ", "a">>, <<" ", "<", "D", "I", "R", ">", " ", "a", " ", "b", " ", "c", " ", "d", " ", "e", " ", "f">>, <<" ", "f">>, <<>>}

\* Lines of no format, and lines of two.
OtherLines ==
  {<<"x">>, <<";">>, <<"m", "o", "d", "i", "f", "y", "=", "x", ";", " ", "0", " ", "1", "2", " ", "u", " ", "J", "a", "n", " ", "1", " ", "2", "0", "2", "0", " ", "f">>, <<"t", "y", "p", "e", "=", "f", "i", "l", "e", ";", "s", "i", "z", "e", "=", "5", " ", "n">>,
   <<"-", "r", "w", " ", " ", "1", " ", "u", " ", "g", " ", "1", "2", " ", " ", "J", "a", "n", " ", "1", " ", "2", "0", "2", "0", " ", "a", " ", " ", "b">>}

\* The three fields given to setTime: a month, a day and a year or a time.
TimeTokens ==
  {<<month, day, year>> :
     month \in {<<"J", "a", "n">>, <<"F", "e", "b">>}, day \in {<<"1">>, <<"3", "0">>},
     year \in YearTokens \cup {<<"2", "0", "2", "0", "1">>, <<"1", ":", "3", "0">>}}

\* The inputs of the parsers: the line, with the parts it was made of (the
\* facts and the name of a line of RFC 3659, the tokens of a line of ls).
ParseInputs ==
  {[kind |-> "rfc", line |-> RfcLine(fs, n), parts |-> fs, name |-> n] :
     fs \in FactLists, n \in EntryNames}
    \cup {[kind |-> "ls", line |-> Join(ts, <<" ">>), parts |-> ts, name |-> <<>>] :
            ts \in LsTokens}
    \cup {[kind |-> "dir", line |-> p \o r, parts |-> <<p, r>>, name |-> <<>>] :
            p \in DirPrefixes, r \in DirRests}
    \cup {[kind |-> "other", line |-> l, parts |-> <<>>, name |-> <<>>] :
            l \in OtherLines}

ParserNames ==
  {"parseRFC3659ListLine", "parseLsListLine", "parseDirListLine", "parseListLine"}

\* The parsers that read the clock.
UsesClock(fn) == fn \in {"parseLsListLine", "parseListLine"}

\* The input is a line for one of the parsers, or three fields for setTime.
ParseInput ==
  \/ \E fn \in ParserNames, in \in ParseInputs, y \in ThisYears :
       /\ UsesClock(fn) \/ y = 2026
       /\ pin = [fn |-> fn, kind |-> in.kind, line |-> in.line, parts |-> in.parts,
                 name |-> in.name, now |-> y]
  \/ \E ts \in TimeTokens, y \in ThisYears :
       pin = [fn |-> "setTime", kind |-> "time", line |-> <<>>, parts |-> ts,
              name |-> <<>>, now |-> y]

ParseResult(fn, r) == [fn |-> fn, out |-> "done", err |-> r.err, e |-> r.e]

ApplyRFC3659 ==
  /\ pin.fn = "parseRFC3659ListLine" /\ pout.out = "none"
  /\ pout' = ParseResult(pin.fn, parseRFC3659ListLine(pin.line))
  /\ UNCHANGED <<pin, sessionVars, callVars>>

ApplyLs ==
  /\ pin.fn = "parseLsListLine" /\ pout.out = "none"
  /\ pout' = ParseResult(pin.fn, parseLsListLine(pin.line, pin.now))
  /\ UNCHANGED <<pin, sessionVars, callVars>>

ApplyDir ==
  /\ pin.fn = "parseDirListLine" /\ pout.out = "none"
  /\ pout' = ParseResult(pin.fn, parseDirListLine(pin.line))
  /\ UNCHANGED <<pin, sessionVars, callVars>>

ApplyList ==
  /\ pin.fn = "parseListLine" /\ pout.out = "none"
  /\ pout' = ParseResult(pin.fn, parseListLine(pin.line, pin.now))
  /\ UNCHANGED <<pin, sessionVars, callVars>>

ApplySetTime ==
  /\ pin.fn = "setTime" /\ pout.out = "none"
  /\ pout' = ParseResult(pin.fn, setTime(ZeroEntry, pin.parts, pin.now))
  /\ UNCHANGED <<pin, sessionVars, callVars>>

InitParse ==
  /\ NoSession /\ NoCall
  /\ pout = NoResult
  /\ ParseInput

NextParse == ApplyRFC3659 \/ ApplyLs \/ ApplyDir \/ ApplyList \/ ApplySetTime

SpecParse == InitParse /\ [][NextParse]_vars

----------------------------------------------------------------------------
(* Properties.  Those of the session are stated on log, the events of the  *)
(* operation in progress (or just returned), and on ret, its result.       *)

WriteKinds == {"W", "WERR"}
ReadKinds == {"R", "RERR"}
DialKinds == {"DIAL", "DIALERR"}

\* The positions of l that hold an event of one of kinds.
Positions(l, kinds) == {i \in 1..Len(l) : l[i].k \in kinds}

\* The command verb was written and answered with 125 or 150.
Accepted(l, verb) ==
  \E i \in 1..(Len(l) - 1) :
    /\ l[i] = Ev("W", verb, 0)
    /\ l[i + 1].k = "R"
    /\ l[i + 1].n \in {StatusAlreadyOpen, StatusAboutToSend}

\* The data connection is closed exactly once, and after that exactly one
\* control reply is read.
Drained(l) ==
  \E i \in 1..Len(l) :
    /\ Positions(l, {"DCLOSE"}) = {i}
    /\ Cardinality({j \in Positions(l, ReadKinds) : j > i}) = 1

\* C1: when StorFrom returns after its STOR command was accepted with 125 or
\* 150, it has closed the data connection exactly once and has then read
\* exactly one control reply, on every path, the one on which the copy failed
\* included.
C1_StorFromDrains ==
  (op = "StorFrom" /\ pc = "returned" /\ Accepted(log, "STOR")) => Drained(log)

\* StorFrom has returned after a failed copy: the data connection is closed and
\* the completion reply is left unread.
C1_CopyFailedUndrained ==
  /\ op = "StorFrom" /\ pc = "returned" /\ Accepted(log, "STOR")
  /\ Positions(log, {"DWRITEERR"}) /= {}
  /\ log[Len(log)] = DataClose

\* C2: when Close of a download stream returns, it has closed the data
\* connection and has then read exactly one control reply, whatever the reads
\* on the stream before; and it returns an error when the reply is not 226.
C2_StreamCloseDrains ==
  (op = "response.Close" /\ pc = "returned") =>
    /\ Len(log) = 2
    /\ log[1] = DataClose
    /\ log[2].k \in ReadKinds
    /\ log[2] /= Ev("R", "", StatusClosingDataConnection) => ret.err

\* The first Close of a stream whose only read ended with an error; the reply
\* read by Close is not 226 and Close returns an error.
C2_ClosedAfterReadError ==
  /\ op = "response.Close" /\ pc = "returned"
  /\ stream.closes = 1 /\ stream.reads = 1 /\ stream.last = "error"
  /\ \E c \in OtherCodes : log = <<DataClose, Ev("R", "", c)>>
  /\ ret.err

\* The commands of the operation that owns a data connection.
TransferVerbs == {"REST", "NLST", "RETR", "STOR"}

\* C3: between the opening of a data connection and the reading of its
\* completion reply after its close, an operation writes no command of another
\* operation on the control connection.
C3_NoCommandBeforeDrain ==
  \A i, j \in 1..Len(log) :
    (i < j /\ log[i].k = "DIAL" /\ log[j].k \in WriteKinds
       /\ log[j].c \notin TransferVerbs)
      => \E k, m \in 1..Len(log) :
           /\ i < k /\ k < m /\ m < j
           /\ log[k] = DataClose
           /\ log[m].k \in ReadKinds

\* Delete has written DELE or RMD while the data connection of its NLST is open.
C3_DeleteWritesWhileOpen ==
  /\ op = "Delete"
  /\ \E i, j \in 1..Len(log) :
       /\ i < j /\ log[i].k = "DIAL"
       /\ log[j].k \in WriteKinds /\ log[j].c \in {"DELE", "RMD"}
       /\ Positions(log, {"DCLOSE"}) = {}

\* The events of one step.
NewEvents == SubSeq(log', Len(log) + 1, Len(log'))

\* An attempt to write the passive-mode command verb is among ev.
Attempted(ev, verb) == \E i \in 1..Len(ev) : ev[i].k \in WriteKinds /\ ev[i].c = verb

\* EPSV was answered with 229 and its port was dialed.
EpsvSucceeded(ev) ==
  \E i \in 1..(Len(ev) - 2) :
    /\ ev[i] = Ev("W", "EPSV", 0)
    /\ ev[i + 1] = Ev("R", "", StatusExtendedPassiveMode)
    /\ ev[i + 2].k \in DialKinds

\* C4: unepsv is never cleared; it is set only by a step in which an EPSV
\* attempt fails, and every such step sets it (so a successful EPSV and a
\* failure of PASV leave it as it is); and once it is set, an acquisition writes
\* no EPSV and begins with PASV.
C4_FlagStep ==
  /\ unepsv => unepsv'
  /\ (~unepsv /\ unepsv') =>
       (Attempted(NewEvents, "EPSV") /\ ~EpsvSucceeded(NewEvents))
  /\ (~unepsv /\ Attempted(NewEvents, "EPSV") /\ ~EpsvSucceeded(NewEvents)) => unepsv'
  /\ unepsv => ~Attempted(NewEvents, "EPSV")
  /\ (unepsv /\ pc = "open" /\ pc' /= "open") =>
       (NewEvents /= <<>> /\ NewEvents[1].k \in WriteKinds /\ NewEvents[1].c = "PASV")

C4_EpsvDisabledOnce == [][C4_FlagStep]_vars

\* An EPSV attempt has failed by ending the goroutine, and unepsv is not set.
C4_EpsvFailedFlagUnset ==
  /\ pc = "panic" /\ ~unepsv
  /\ Attempted(log, "EPSV") /\ ~Attempted(log, "PASV")

\* The text is an integer for strconv.Atoi.
IsInteger(s) == Atoi(s).ok

\* The EPSV attempt answered by rep fails: no reply, a code other than 229, or
\* a body without "|||", without a bar after the "|||", or whose port field is
\* not a number.
EpsvFailure(rep) ==
  \/ rep.io /= "ok"
  \/ rep.code /= StatusExtendedPassiveMode
  \/ LET start == Index(rep.msg, <<"|", "|", "|">>)
         end == LastIndex(rep.msg, <<"|">>)
     IN  \/ start = -1
         \/ end < start + 3
         \/ ~IsInteger(Slice(rep.msg, start + 3, end))

\* C5: when getDataConnPort is called with unepsv false and the EPSV attempt
\* fails, for whatever reason, it sets unepsv and issues PASV, and its outcome
\* is the outcome of PASV.
C5_EpsvFailureFallsBack ==
  (pout.fn = "getDataConnPort" /\ ~pin.unepsv /\ EpsvFailure(pin.er)) =>
    /\ pout.unepsv
    /\ Attempted(pout.ev, "PASV")
    /\ pout.out = pasv(pin.pr).out
    /\ pout.port = pasv(pin.pr).port

\* getDataConnPort has ended in a panic on an EPSV reply with "|||" and no
\* later bar, without setting unepsv and without PASV.
C5_EpsvPanics ==
  /\ pout.fn = "getDataConnPort" /\ ~pin.unepsv /\ EpsvFailure(pin.er)
  /\ pout.out = "panic" /\ ~pout.unepsv
  /\ ~Attempted(pout.ev, "PASV")
  /\ Contains(pin.er.msg, <<"|", "|", "|">>)

\* The body is a parenthesized comma-separated list of at least six fields
\* whose fifth and sixth are integers.
IsPasvList(body) ==
  LET start == Index(body, <<"(">>)
      end == LastIndex(body, <<")">>)
  IN  /\ start /= -1 /\ start < end
      /\ LET fields == Split(Slice(body, start + 1, end), <<",">>)
         IN  Len(fields) >= 6 /\ IsInteger(fields[5]) /\ IsInteger(fields[6])

\* The PASV attempt answered by rep fails.
PasvFailure(rep) ==
  rep.io /= "ok" \/ rep.code /= StatusPassiveMode \/ ~IsPasvList(rep.msg)

\* C6: when PASV is issued and fails, getDataConnPort and openDataConn return
\* an error, nothing is dialed, and the PASV is the last passive-mode command
\* of the acquisition.
C6_PasvFailureIsFinal ==
  (pout.fn \in {"getDataConnPort", "openDataConn"}
     /\ Attempted(pout.ev, "PASV") /\ PasvFailure(pin.pr)) =>
    /\ pout.out = "err"
    /\ pout.dial = {}
    /\ Positions(pout.ev, DialKinds) = {}
    /\ \E i \in Positions(pout.ev, WriteKinds) :
         /\ pout.ev[i].c = "PASV"
         /\ \A j \in Positions(pout.ev, WriteKinds) : j <= i

\* openDataConn has ended in a panic on a PASV reply whose last ")" lies before
\* its first "(".
C6_PasvPanics ==
  /\ pout.fn = "openDataConn" /\ pout.out = "panic"
  /\ Attempted(pout.ev, "PASV") /\ PasvFailure(pin.pr)
  /\ LastIndex(pin.pr.msg, <<")">>) /= -1
  /\ LastIndex(pin.pr.msg, <<")">>) < Index(pin.pr.msg, <<"(">>)

\* The fields of a parenthesized comma-separated list.
PasvFieldsOf(body) ==
  Split(Slice(body, Index(body, <<"(">>) + 1, LastIndex(body, <<")">>)), <<",">>)

\* The last n characters of s, or all of s.
LastChars(s, n) == SubSeq(s, IF Len(s) > n THEN Len(s) - n + 1 ELSE 1, Len(s))

\* Two PASV bodies that differ in nothing but their four address octets.  (The
\* first conjunct follows from the others, a list of six fields ending with at
\* least ",p1,p2)"; it settles most pairs without parsing them.)
DifferOnlyInOctets(b1, b2) ==
  /\ LastChars(b1, 5) = LastChars(b2, 5)
  /\ IsPasvList(b1) /\ IsPasvList(b2)
  /\ Slice(b1, 0, Index(b1, <<"(">>)) = Slice(b2, 0, Index(b2, <<"(">>))
  /\ Slice(b1, LastIndex(b1, <<")">>), Len(b1)) = Slice(b2, LastIndex(b2, <<")">>), Len(b2))
  /\ LET f1 == PasvFieldsOf(b1)
         f2 == PasvFieldsOf(b2)
     IN  Len(f1) = Len(f2) /\ \A i \in 5..Len(f1) : f1[i] = f2[i]

\* C7: every dial of a data connection goes to the session's host; and two
\* dials after PASV replies that differ only in their address octets have the
\* same target, host and port.
C7_DialsSessionHost ==
  /\ \A d \in dials : d.host = host
  /\ \A d1, d2 \in dials :
       \/ (d1.host = d2.host /\ d1.port = d2.port)
       \/ ~(d1.via = "PASV" /\ d2.via = "PASV" /\ DifferOnlyInOctets(d1.body, d2.body))

\* The session has dialed after two PASV replies with different address octets
\* and the same port fields.
C7_TwoAdvertisedAddresses ==
  \E d1, d2 \in dials :
    /\ d1.via = "PASV" /\ d2.via = "PASV"
    /\ d1.body /= d2.body
    /\ DifferOnlyInOctets(d1.body, d2.body)
    /\ d1.host = host /\ d2.host = host

\* The body is "(h1,h2,h3,h4,p1,p2)" with integers p1 and p2.
IsSixList(body) ==
  /\ Len(body) >= 2 /\ body[1] = "(" /\ body[Len(body)] = ")"
  /\ \A i \in 2..(Len(body) - 1) : body[i] \notin {"(", ")"}
  /\ LET fields == Split(Slice(body, 1, Len(body) - 1), <<",">>)
     IN  Len(fields) = 6 /\ IsInteger(fields[5]) /\ IsInteger(fields[6])

\* The port fields p1 and p2 of such a body.
PortField(body, i) == Atoi(Split(Slice(body, 1, Len(body) - 1), <<",">>)[i]).val

\* pasv was applied to a 227 reply with the body "(h1,h2,h3,h4,p1,p2)".
PasvOnSixList ==
  /\ pout.fn = "pasv" /\ pin.pr.io = "ok" /\ pin.pr.code = StatusPassiveMode
  /\ IsSixList(pin.pr.msg)

\* C8, as stated: for a 227 reply "(h1,h2,h3,h4,p1,p2)" with integers p1 and p2
\* pasv returns p1*256 + p2, and that is a TCP port, in 0..65535.
C8_PasvPortAlwaysValid ==
  PasvOnSixList =>
    /\ pout.out = "ok"
    /\ pout.port = PortField(pin.pr.msg, 5) * 256 + PortField(pin.pr.msg, 6)
    /\ ValidPort(pout.port)

\* C8, amended: for a 227 reply "(h1,h2,h3,h4,p1,p2)" with integers p1 and p2
\* pasv returns p1*256 + p2; that is a TCP port, in 0..65535, when p1 and p2
\* are octets, in 0..255.
C8_PasvPort ==
  PasvOnSixList =>
    /\ pout.out = "ok"
    /\ pout.port = PortField(pin.pr.msg, 5) * 256 + PortField(pin.pr.msg, 6)
    /\ (PortField(pin.pr.msg, 5) \in 0..255 /\ PortField(pin.pr.msg, 6) \in 0..255)
         => ValidPort(pout.port)

\* pasv has returned 51213 for "(192,168,1,1,200,13)".
C8_Port51213 ==
  /\ PasvOnSixList
  /\ pin.pr.msg = <<"(", "1", "9", "2", ",", "1", "6", "8", ",", "1", ",", "1", ",",
                    "2", "0", "0", ",", "1", "3", ")">>
  /\ pout.out = "ok" /\ pout.port = 51213

\* body holds "(|||N|)" from Go index i on, with a decimal number N that ends
\* before index j.
EpsvGroup(body, i, j) ==
  /\ OccursAt(body, <<"(", "|", "|", "|">>, i)
  /\ j > i + 4
  /\ OccursAt(body, <<"|", ")">>, j)
  /\ \A k \in (i + 4)..(j - 1) : body[k + 1] \in Digit

\* body has no bar but the four of the group.
NoBarOutside(body, i, j) ==
  \A k \in 0..(Len(body) - 1) : body[k + 1] = "|" => (k \in (i + 1)..(i + 3) \/ k = j)

\* epsv was applied, by itself or by getDataConnPort, to a 229 reply.
EpsvOn229 ==
  /\ pout.fn \in {"epsv", "getDataConnPort"} /\ ~pin.unepsv
  /\ pin.er.io = "ok" /\ pin.er.code = StatusExtendedPassiveMode

ReadAt(l, i, n) == Len(l) >= i /\ l[i] = Ev("R", "", n)

\* Login is authenticated: USER is answered with 230, or with 331 and then PASS
\* with 230.
Authenticated(l) ==
  \/ ReadAt(l, 2, StatusLoggedIn)
  \/ /\ ReadAt(l, 2, StatusUserOK)
     /\ Len(l) >= 3 /\ l[3] = Ev("W", "PASS", 0)
     /\ ReadAt(l, 4, StatusLoggedIn)

\* C10: Login begins with USER; it writes PASS exactly when the reply to USER
\* is 331; a reply 230 to USER lets it go on without PASS; when neither USER
\* nor PASS is answered with 230 Login returns an error and writes neither TYPE
\* nor OPTS.
C10_LoginSequence ==
  (op = "Login" /\ pc = "returned") =>
    /\ log /= <<>> /\ log[1].k \in WriteKinds /\ log[1].c = "USER"
    /\ Attempted(log, "PASS") <=> ReadAt(log, 2, StatusUserOK)
    /\ Attempted(log, "PASS") =>
         (Len(log) >= 3 /\ log[3].k \in WriteKinds /\ log[3].c = "PASS")
    /\ ReadAt(log, 2, StatusLoggedIn) =>
         (Len(log) >= 3 /\ log[3].k \in WriteKinds /\ log[3].c = "TYPE I")
    /\ ~Authenticated(log) =>
         /\ ret.err
         /\ ~Attempted(log, "TYPE I")
         /\ ~Attempted(log, "OPTS UTF8 ON")

\* Login has returned an error after USER was answered with 331 and PASS with
\* another code than 230, and has written nothing after PASS.
C10_WrongPassword ==
  /\ op = "Login" /\ pc = "returned" /\ ret.err
  /\ ReadAt(log, 2, StatusUserOK)
  /\ Len(log) = 4 /\ log[3] = Ev("W", "PASS", 0)
  /\ log[4].k = "R" /\ log[4].n /= StatusLoggedIn

\* The position in l of the reply that authenticated Login.
AuthenticatedAt(l) == IF ReadAt(l, 2, StatusLoggedIn) THEN 2 ELSE 4

\* The event at position i of l is an attempt to write the command verb.
WrittenAt(l, i, verb) == Len(l) >= i /\ l[i].k \in WriteKinds /\ l[i].c = verb

\* C11: once authenticated, Login writes TYPE I next and returns an error
\* without OPTS when the reply is not 200; after 200 it writes OPTS UTF8 ON
\* exactly when the feature table has the key UTF8, and then succeeds exactly
\* when the reply is 200 or 202; without UTF8 in the table it writes no OPTS
\* and succeeds.
C11_BinaryThenUtf8 ==
  (op = "Login" /\ pc = "returned" /\ Authenticated(log)) =>
    /\ WrittenAt(log, AuthenticatedAt(log) + 1, "TYPE I")
    /\ ~ReadAt(log, AuthenticatedAt(log) + 2, StatusCommandOK) =>
         (ret.err /\ ~Attempted(log, "OPTS UTF8 ON"))
    /\ ReadAt(log, AuthenticatedAt(log) + 2, StatusCommandOK) =>
         /\ Attempted(log, "OPTS UTF8 ON") <=> UTF8 \in DOMAIN features
         /\ UTF8 \in DOMAIN features =>
              /\ WrittenAt(log, AuthenticatedAt(log) + 3, "OPTS UTF8 ON")
              /\ Len(log) <= AuthenticatedAt(log) + 4
              /\ ~ret.err <=>
                   \/ ReadAt(log, AuthenticatedAt(log) + 4, StatusCommandOK)
                   \/ ReadAt(log, AuthenticatedAt(log) + 4, StatusCommandNotImplemented)
         /\ UTF8 \notin DOMAIN features =>
              (~ret.err /\ Len(log) = AuthenticatedAt(log) + 2)

\* Login has succeeded on a session whose table has UTF8, with 202 as the
\* reply to OPTS UTF8 ON.
C11_Utf8NotImplemented ==
  /\ op = "Login" /\ pc = "returned" /\ ~ret.err
  /\ UTF8 \in DOMAIN features
  /\ log = <<Ev("W", "USER", 0), Ev("R", "", StatusLoggedIn),
             Ev("W", "TYPE I", 0), Ev("R", "", StatusCommandOK),
             Ev("W", "OPTS UTF8 ON", 0), Ev("R", "", StatusCommandNotImplemented)>>

\* The control socket is closed, or its close attempted, at the end of l.
SocketClosed(l) == l /= <<>> /\ l[Len(l)].k \in {"CLOSE", "CLOSEERR"}

\* C12: DialTimeout returns a session only after a successful dial and a
\* greeting with code 220; FEAT is written only after such a greeting; when the
\* dial fails, or the greeting is not 220, DialTimeout returns an error and no
\* session, without FEAT, and after a greeting that is not 220 it has closed
\* the control socket.
C12_DialGreeting ==
  (op = "DialTimeout" /\ pc = "returned") =>
    /\ log /= <<>> /\ log[1].k \in {"CONNECT", "CONNECTERR"}
    /\ ~ret.err => (log[1].k = "CONNECT" /\ ReadAt(log, 2, StatusReady)
                    /\ conn = "open")
    /\ Attempted(log, "FEAT") =>
         (ReadAt(log, 2, StatusReady) /\ WrittenAt(log, 3, "FEAT"))
    /\ log[1].k = "CONNECTERR" => (ret.err /\ conn = "nil" /\ Len(log) = 1)
    /\ (log[1].k = "CONNECT" /\ ~ReadAt(log, 2, StatusReady)) =>
         /\ ret.err /\ conn = "closed"
         /\ Len(log) >= 2 /\ log[2].k \in ReadKinds
         /\ ~Attempted(log, "FEAT")
         /\ SocketClosed(log)

\* DialTimeout has returned an error after a greeting with another code than
\* 220: it has run Close, the socket is closed and FEAT was never written.
C12_GreetingRefused ==
  /\ op = "DialTimeout" /\ pc = "returned" /\ ret.err /\ conn = "closed"
  /\ \E c \in OtherCodes :
       log = <<Ev("CONNECT", "", 0), Ev("R", "", c), Ev("W", "REIN", 0),
               Ev("R", "", StatusReady), Ev("W", "QUIT", 0), Ev("CLOSE", "", 0)>>

\* FEAT was written and answered with another code than 211.
FeatRefused(l) ==
  /\ WrittenAt(l, 3, "FEAT")
  /\ Len(l) >= 4 /\ l[4].k = "R" /\ l[4].n /= StatusSystem

\* C13: when FEAT is answered with another code than 211, DialTimeout returns
\* without an error a session whose socket is open, whose feature table is
\* empty and whose mlst is false, and writes nothing after FEAT.
C13_FeatRefusedIsNoError ==
  (op = "DialTimeout" /\ pc = "returned" /\ FeatRefused(log)) =>
    /\ ~ret.err /\ conn = "open"
    /\ features = EmptyMap /\ mlst = FALSE
    /\ Len(log) = 4

\* DialTimeout has returned a session after a reply to FEAT that is not 211
\* and whose message holds a line " MLST".
C13_FeatUnsupported ==
  /\ op = "DialTimeout" /\ pc = "returned" /\ ~ret.err /\ conn = "open"
  /\ \E c \in OtherCodes :
       log = <<Ev("CONNECT", "", 0), Ev("R", "", StatusReady),
               Ev("W", "FEAT", 0), Ev("R", "", c)>>
  /\ features = EmptyMap /\ ~mlst

\* feat was applied to a 211 reply.
FeatOn211 ==
  /\ pin.fn = "feat" /\ pout.fn = "feat"
  /\ pin.er.io = "ok" /\ pin.er.code = StatusSystem

\* Taking i characters from the front of l and j from its end takes its
\* leading and trailing whitespace, all of it and nothing else.
TrimsAt(l, i, j) ==
  /\ i + j <= Len(l)
  /\ \A k \in 1..i : l[k] \in Space
  /\ \A k \in (Len(l) - j + 1)..Len(l) : l[k] \in Space
  /\ i + j < Len(l) => (l[i + 1] \notin Space /\ l[Len(l) - j] \notin Space)

\* The trimmed line t names the capability k with the parameter v: k is t up
\* to its first space and v what follows that space, or k is t and v is empty.
IsEntryOf(k, v, t) ==
  \/ /\ \A i \in 1..Len(t) : t[i] /= " "
     /\ k = t /\ v = <<>>
  \/ \E i \in 1..Len(t) :
       /\ t[i] = " " /\ \A m \in 1..(i - 1) : t[m] /= " "
       /\ k = SubSeq(t, 1, i - 1) /\ v = SubSeq(t, i + 1, Len(t))

\* The line l without the whitespace at its two ends.
Trims(l) ==
  {SubSeq(l, p[1] + 1, Len(l) - p[2]) :
     p \in {q \in (0..Len(l)) \X (0..Len(l)) : TrimsAt(l, q[1], q[2])}}

\* The capabilities the line l names.
KeysOf(l) ==
  {k \in UNION {{SubSeq(t, 1, b) : b \in 0..Len(t)} : t \in Trims(l)} :
     \E t \in Trims(l) : \E a \in 1..(Len(t) + 1) : IsEntryOf(k, SubSeq(t, a, Len(t)), t)}

\* The table is the one of the lines of ls at the positions listed: its keys
\* are the capabilities those lines name, and the value of a key is the
\* parameter in the last listed line that names it.
TableOf(table, ls, listed) ==
  /\ DOMAIN table = UNION {KeysOf(ls[n]) : n \in listed}
  /\ \A k \in DOMAIN table :
       \E n \in listed :
         /\ k \in KeysOf(ls[n])
         /\ \A m \in listed : m > n => k \notin KeysOf(ls[m])
         /\ \E t \in Trims(ls[n]) : IsEntryOf(k, table[k], t)

\* The positions of the lines of ls that begin with a space.
SpaceLines(ls) == {n \in 1..Len(ls) : ls[n] /= <<>> /\ ls[n][1] = " "}

\* The positions of the lines of ls, the first and the last left out, that
\* begin with exactly one space.
OneSpaceMiddleLines(ls) ==
  {n \in 2..(Len(ls) - 1) :
     /\ ls[n] /= <<>> /\ ls[n][1] = " "
     /\ Len(ls[n]) >= 2 => ls[n][2] /= " "}

\* The reply of the example, "211-Features:\n MLST\n SIZE\n211 End".
FeatExample ==
  Reply(StatusSystem,
        <<"F", "e", "a", "t", "u", "r", "e", "s", ":", "\n",
          " ", "M", "L", "S", "T", "\n", " ", "S", "I", "Z", "E", "\n",
          "E", "n", "d">>)

ExampleTable ==
  [k \in {<<"M", "L", "S", "T">>, <<"S", "I", "Z", "E">>} |-> <<>>]

\* C14 as stated: after a 211 reply the table is that of the lines between the
\* first and the last that begin with exactly one space, and the example reply
\* gives exactly MLST and SIZE with empty parameters.
C14_FeatTableOneSpace ==
  FeatOn211 =>
    /\ TableOf(pout.features, Split(pin.er.msg, <<"\n">>),
               OneSpaceMiddleLines(Split(pin.er.msg, <<"\n">>)))
    /\ pin.er = FeatExample => pout.features = ExampleTable

\* C14, amended: after a 211 reply the table is that of all the lines of the
\* message that begin with a space, the first and the last line and the lines
\* with more than one leading space included: each is trimmed, its key is the
\* text up to the first space and its value the rest or empty, and a later
\* line replaces the value of an earlier one with the same key.  feat returns
\* no error for a 211 reply, and the example reply gives exactly MLST and SIZE
\* with empty parameters.
C14_FeatTable ==
  FeatOn211 =>
    /\ pout.out = "ok"
    /\ TableOf(pout.features, Split(pin.er.msg, <<"\n">>),
               SpaceLines(Split(pin.er.msg, <<"\n">>)))
    /\ pin.er = FeatExample => pout.features = ExampleTable

\* feat was applied to the example reply and gave MLST and SIZE.
C14_ExampleGivesMlstAndSize ==
  /\ pin.fn = "feat" /\ pout.fn = "feat" /\ pout.out = "ok"
  /\ pin.er = FeatExample
  /\ pout.features = ExampleTable

\* A step of a session that DialTimeout has returned changes neither the
\* feature table nor mlst, and after every step mlst is true exactly when the
\* table has the key MLST.
C15_FrozenStep ==
  /\ conn /= "nil" => (features' = features /\ mlst' = mlst)
  /\ mlst' <=> MLST \in DOMAIN features'

QuitAt(l) == IF l[1].k = "W" THEN 3 ELSE 2

\* C16: Close of the session attempts REIN, then QUIT, then the close of the
\* socket, in this order, and attempts each of them whatever became of the
\* ones before: after a REIN that could not be written or was refused, QUIT is
\* still attempted, and after a QUIT that could not be written the socket is
\* still closed.
C16_CloseAttemptsAll ==
  (op = "Close" /\ pc = "returned") =>
    /\ WrittenAt(log, 1, "REIN")
    /\ log[1].k = "W" => (Len(log) >= 2 /\ log[2].k \in ReadKinds)
    /\ WrittenAt(log, QuitAt(log), "QUIT")
    /\ Len(log) = QuitAt(log) + 1
    /\ SocketClosed(log)
    /\ conn = "closed"

\* Close has returned after a REIN and a QUIT that could both not be written;
\* the socket was closed all the same.
C16_ClosedAfterTwoFailures ==
  /\ op = "Close" /\ pc = "returned" /\ conn = "closed"
  /\ log = <<Ev("WERR", "REIN", 0), Ev("WERR", "QUIT", 0), Ev("CLOSE", "", 0)>>

\* The first of the three steps of Close that failed in l, "nil" when none did.
FirstFailure(l) ==
  IF l[1].k = "WERR" \/ ~ReadAt(l, 2, StatusReady) THEN "REIN"
  ELSE IF l[QuitAt(l)].k = "WERR" THEN "QUIT"
  ELSE IF l[Len(l)].k = "CLOSEERR" THEN "close"
  ELSE "nil"

\* C17: Close of the session returns nil when its three steps succeed, and
\* otherwise the error of the first step that failed, also when a later step
\* fails too.
C17_FirstErrorReturned ==
  (op = "Close" /\ pc = "returned") =>
    /\ ret.why = FirstFailure(log)
    /\ ret.err <=> FirstFailure(log) /= "nil"

\* Close has returned the error of the close of the socket although REIN had
\* failed before it.
C17_LastErrorReturned ==
  /\ op = "Close" /\ pc = "returned"
  /\ \E c \in OtherCodes :
       log = <<Ev("W", "REIN", 0), Ev("R", "", c), Ev("W", "QUIT", 0),
               Ev("CLOSEERR", "", 0)>>
  /\ ret.err /\ ret.why = "close"

\* The operations that call cmdDataConnFrom.
DataOps == {"NameList", "Delete", "RetrFrom", "StorFrom", "Upload"}

\* The number of times the data connection was closed in l.
Closes(l) == Cardinality(Positions(l, {"DCLOSE"}))

\* C18: cmdDataConnFrom hands an open data connection to its caller exactly
\* when the reply to the command is 125 or 150.  When the command could not be
\* written, no reply could be read, or the reply has another code, it has
\* closed the data connection exactly once, as its last act, and the operation
\* returns an error, which for a reply of another code carries that reply's
\* code and message.
C18_DataConnIffPreliminary ==
  (op \in DataOps /\ Attempted(log, Verb(op))) =>
    /\ ~Accepted(log, Verb(op)) =>
         /\ pc = "returned" /\ ret.err /\ ret.why = "command"
         /\ dconn = "closed" /\ stream.conn = "none"
         /\ Closes(log) = 1 /\ log[Len(log)] = DataClose
         /\ log[Len(log) - 1].k \in {"WERR", "RERR", "R"}
         /\ log[Len(log) - 1].k = "R" =>
              (ret.code = log[Len(log) - 1].n /\ ret.msg = <<"x">>)
    /\ Accepted(log, Verb(op)) =>
         /\ ret.why /= "command"
         /\ pc \in {"scan", "copy"} => (dconn = "open" /\ Closes(log) = 0)
         /\ op = "RetrFrom" =>
              (pc = "returned" /\ ~ret.err /\ stream.conn = "open" /\ Closes(log) = 0)

\* StorFrom has returned the error of a reply to STOR that is neither 125 nor
\* 150, with that reply's code, after closing the data connection once.
C18_CommandRefused ==
  /\ op = "StorFrom" /\ pc = "returned" /\ ret.err /\ ret.why = "command"
  /\ \E c \in OtherCodes :
       /\ ret.code = c
       /\ SubSeq(log, Len(log) - 2, Len(log))
            = <<Ev("W", "STOR", 0), Ev("R", "", c), DataClose>>
  /\ dconn = "closed" /\ Closes(log) = 1

\* REST was attempted in l and was not answered with 350.
RestRefused(l) ==
  \E i \in 1..Len(l) :
    /\ l[i].k \in WriteKinds /\ l[i].c = "REST"
    /\ l[i].k = "WERR" \/ ~ReadAt(l, i + 1, StatusRequestFilePending)

\* C19: an operation writes REST exactly when its offset is not 0, as the
\* first command after the dial of the data connection and before RETR or
\* STOR; without a data connection it writes no REST; and when REST is not
\* answered with 350 the data connection is closed, the operation returns an
\* error, and RETR or STOR is never written.
C19_RestBeforeCommand ==
  (op \in DataOps /\ pc \notin {"prepare", "open", "rest"}) =>
    /\ Attempted(log, "REST") <=> (offset /= 0 /\ Positions(log, {"DIAL"}) /= {})
    /\ \A i \in 1..Len(log) :
         (log[i].k \in WriteKinds /\ log[i].c = "REST") =>
           /\ i > 1 /\ log[i - 1].k = "DIAL"
           /\ \A j \in 1..Len(log) :
                (log[j].k \in WriteKinds /\ log[j].c = Verb(op)) => j > i
    /\ RestRefused(log) =>
         /\ pc = "returned" /\ ret.err /\ ret.why = "REST"
         /\ dconn = "closed" /\ Closes(log) = 1 /\ log[Len(log)] = DataClose
         /\ ~Attempted(log, Verb(op))

\* RetrFrom with an offset has returned an error after a reply to REST that is
\* not 350: the data connection is closed and RETR was not written.
C19_RestRefused ==
  /\ op = "RetrFrom" /\ pc = "returned" /\ offset /= 0 /\ ret.err
  /\ \E c \in OtherCodes, i \in 1..Len(log) :
       /\ Len(log) = i + 3 /\ log[i].k = "DIAL"
       /\ log[i + 1] = Ev("W", "REST", 0) /\ log[i + 2] = Ev("R", "", c)
       /\ log[i + 3] = DataClose
  /\ ~Attempted(log, "RETR")

\* C20: NameList reports success only when the reply read after the close of
\* the data connection is 226, and returns an error when that reply has
\* another code or cannot be read.
C20_ListingNeeds226 ==
  (op = "NameList" /\ pc = "returned" /\ Accepted(log, "NLST")) =>
    (~ret.err => log[Len(log)] = Ev("R", "", StatusClosingDataConnection))

\* NameList has returned its entries and no error although the reply read
\* after the close of the data connection is not 226.
C20_CompletionErrorDropped ==
  /\ op = "NameList" /\ pc = "returned" /\ ~ret.err
  /\ Accepted(log, "NLST")
  /\ \E c \in OtherCodes :
       SubSeq(log, Len(log) - 1, Len(log)) = <<DataClose, Ev("R", "", c)>>

\* cmd was applied.
CmdApplied == pin.fn = "cmd" /\ pout.fn = "cmd"

\* C26: cmd attempts to write one command; when the write fails it reads
\* nothing and returns the error of the write; otherwise it reads exactly one
\* reply.  When the expected code is a concrete one and the reply's code
\* differs, the error returned is made of the reply's code and message; with
\* the expected code -1, and with a reply of the expected code, cmd returns no
\* error and the reply's code and message.
C26_CmdOneExchange ==
  CmdApplied =>
    /\ pin.rep.io = "werr" =>
         /\ pout.ev = <<Ev("WERR", pin.verb, 0)>>
         /\ pout.out = "err" /\ pout.error.kind = "io"
    /\ pin.rep.io /= "werr" =>
         /\ Len(pout.ev) = 2 /\ pout.ev[1] = Ev("W", pin.verb, 0)
         /\ pout.ev[2].k \in ReadKinds
    /\ pin.rep.io = "rerr" => (pout.out = "err" /\ pout.error.kind = "io")
    /\ (pin.rep.io = "ok" /\ pin.expected /= AnyCode /\ pin.rep.code /= pin.expected) =>
         /\ pout.out = "err"
         /\ pout.error = [kind |-> "textproto.Error", Code |-> pin.rep.code,
                          Msg |-> pin.rep.msg]
    /\ (pin.rep.io = "ok" /\ (pin.expected = AnyCode \/ pin.rep.code = pin.expected)) =>
         /\ pout.out = "ok" /\ pout.error.kind = "nil"
         /\ pout.code = pin.rep.code /\ pout.msg = pin.rep.msg

\* cmd expected 250 and read a reply with another code and a message of two
\* lines; its error holds that code and that message.
C26_WrongCodeCarried ==
  /\ CmdApplied
  /\ pin.expected = StatusRequestedFileActionOK
  /\ pin.rep.io = "ok" /\ pin.rep.code \in OtherCodes
  /\ pin.rep.msg = <<"a", "\n", "b">>
  /\ pout.out = "err"
  /\ pout.error.Code = pin.rep.code /\ pout.error.Msg = pin.rep.msg

\* C30: Rename writes RNFR first; it writes RNTO exactly when RNFR was answered
\* with 350, and then directly after that reply; when RNFR is not answered
\* with 350 Rename returns the error of RNFR and RNTO is never written; and
\* Rename returns no error only when RNTO was answered with 250.
C30_RenameSequence ==
  (op = "Rename" /\ pc = "returned") =>
    /\ WrittenAt(log, 1, "RNFR")
    /\ Attempted(log, "RNTO") <=> ReadAt(log, 2, StatusRequestFilePending)
    /\ Attempted(log, "RNTO") => (WrittenAt(log, 3, "RNTO") /\ Len(log) <= 4)
    /\ ~ReadAt(log, 2, StatusRequestFilePending) =>
         (ret.err /\ ret.why = "RNFR" /\ Len(log) <= 2)
    /\ ~ret.err <=> ReadAt(log, 4, StatusRequestedFileActionOK)

\* Rename has returned the error of a reply to RNFR that is not 350 and has
\* written nothing after it.
C30_RenameFromRefused ==
  /\ op = "Rename" /\ pc = "returned" /\ ret.err /\ ret.why = "RNFR"
  /\ \E c \in OtherCodes : log = <<Ev("W", "RNFR", 0), Ev("R", "", c)>>

\* The parser fn was applied to the input.
ParseApplied(fn) == pin.fn = fn /\ pout.fn = fn

\* What the three recognizers make of a line, in the order of the chain.
Recognized(line, thisYear) ==
  <<parseRFC3659ListLine(line), parseLsListLine(line, thisYear),
    parseDirListLine(line)>>

\* C22: parseListLine accepts a line whenever one of the recognizers
\* (structured facts, ls, fixed-width date, tried in this order) accepts it,
\* with the entry of the first that does, also when an earlier recognizer
\* returned an error other than "unsupported line".
C22_MalformedIsTryNext ==
  ParseApplied("parseListLine") =>
    \A rs \in {Recognized(pin.line, pin.now)} :
      \A i \in 1..3 :
        (rs[i].err = "nil" /\ \A j \in 1..(i - 1) : rs[j].err /= "nil") =>
          (pout.err = "nil" /\ pout.e = rs[i].e)

\* parseListLine has returned the error of a recognizer that found the line
\* malformed although a later recognizer accepts the line: the time of the
\* fact modify is none, and the line is a line of ls.
C22_MalformedEndsChain ==
  /\ ParseApplied("parseListLine")
  /\ pin.line = <<"m", "o", "d", "i", "f", "y", "=", "x", ";", " ", "0", " ", "1", "2", " ", "u", " ", "J", "a", "n", " ", "1", " ", "2", "0", "2", "0", " ", "f">>
  /\ pout.err = errTimeParse
  /\ parseLsListLine(pin.line, pin.now).err = "nil"

\* The name of a fact, the text before its "=".
FactKey(fact) ==
  IF Index(fact, <<"=">>) < 0 THEN fact ELSE Slice(fact, 0, Index(fact, <<"=">>))
DistinctKeys(facts) ==
  \A i, j \in 1..Len(facts) : FactKey(facts[i]) = FactKey(facts[j]) => i = j

\* The line of the same facts in any order is accepted or rejected like the
\* line of the input, and gives the same entry.
SameInEveryOrder ==
  \A fs \in Orderings(pin.parts) :
    \A r \in {parseRFC3659ListLine(RfcLine(fs, pin.name))} :
      ((r.err = "nil") <=> (pout.err = "nil")) /\ r.e = pout.e

\* The facts of the example in some order, and the entry of the example.
IsExample == pin.parts \in Orderings(ExampleFacts) /\ pin.name = <<"r", "e", "p", "o", "r", "t", ".", "t", "x", "t">>
ExampleEntry ==
  Entry(<<"r", "e", "p", "o", "r", "t", ".", "t", "x", "t">>, EntryTypeFile, 12345, Date(2020, 1, 1, 12, 0, 0, 0))

\* C23 as stated: parseRFC3659ListLine gives the same entry for the facts of
\* a line in every order, whatever the facts.
C23_AnyFactsAnyOrder ==
  (ParseApplied("parseRFC3659ListLine") /\ pin.kind = "rfc") =>
    /\ SameInEveryOrder
    /\ IsExample => (pout.err = "nil" /\ pout.e = ExampleEntry)

\* C23: for a line "f1=v1;...;fn=vn; name" whose facts have names that differ
\* from one another, parseRFC3659ListLine gives the same result (the same
\* entry, or no entry) for the facts in every order; the facts type=file,
\* size=12345, modify=20200101120000 and the name report.txt give, in every
\* order, the file "report.txt" of size 12345 and time 2020-01-01T12:00:00Z.
C23_FactOrderIrrelevant ==
  (ParseApplied("parseRFC3659ListLine") /\ pin.kind = "rfc") =>
    /\ DistinctKeys(pin.parts) => SameInEveryOrder
    /\ IsExample => (pout.err = "nil" /\ pout.e = ExampleEntry)

\* The facts of the example were parsed in another order than the example's.
C23_ExampleReordered ==
  /\ ParseApplied("parseRFC3659ListLine")
  /\ pin.line = <<"m", "o", "d", "i", "f", "y", "=", "2", "0", "2", "0", "0", "1", "0", "1", "1", "2", "0", "0", "0", "0", ";", "s", "i", "z", "e", "=", "1", "2", "3", "4", "5", ";", "t", "y", "p", "e", "=", "f", "i", "l", "e", ";", " ", "r", "e", "p", "o", "r", "t", ".", "t", "x", "t">>
  /\ pout.err = "nil" /\ pout.e = ExampleEntry

\* The formats of dirTimeFormats in which the start of a line parses.
DatePrefixes(line) ==
  {i \in 1..Len(dirTimeFormats) :
     /\ Len(line) >= Len(dirTimeFormats[i].text)
     /\ TimeParse(dirTimeFormats[i],
                  Slice(line, 0, Len(dirTimeFormats[i].text))).ok}

\* C24: parseDirListLine returns an entry only for a line whose start parses
\* in one of the two date formats, and rejects every line without such a
\* start, of any length, as an unsupported line.
C24_DirNeedsDatePrefix ==
  ParseApplied("parseDirListLine") =>
    \A ds \in {DatePrefixes(pin.line)} :
      /\ pout.err = "nil" => ds /= {}
      /\ ds = {} => pout.err = errUnsupportedListLine

\* parseDirListLine has accepted a line of three characters, which has no
\* date, as a file of size 5 with the time Time{}.
C24_ShortLineAccepted ==
  /\ ParseApplied("parseDirListLine")
  /\ pin.line = <<"5", " ", "a">>
  /\ pout.err = "nil"
  /\ pout.e = Entry(<<"a">>, EntryTypeFile, 5, ZeroTime)

\* The line has the generic form of ls: nine tokens or more, the second not
\* "0", and not "folder" before "0".
GenericLs ==
  /\ pin.kind = "ls" /\ Len(pin.parts) >= 9
  /\ pin.parts[2] /= <<"0">>
  /\ ~(pin.parts[2] = <<"f", "o", "l", "d", "e", "r">> /\ pin.parts[3] = <<"0">>)

\* C25: for a line of the generic form parseLsListLine fails when the first
\* character of the first token is none of '-', 'd' and 'l'; the entry it
\* returns is a file, a folder or a link after that character, has the size
\* read from the fifth token when it is a file (12 for "12"), and has as its
\* name the tokens from the ninth on, joined by single spaces.
C25_LsGenericForm ==
  (ParseApplied("parseLsListLine") /\ GenericLs) =>
    /\ pin.parts[1][1] \notin {"-", "d", "l"} => pout.err = errUnknownEntryType
    /\ pout.err = "nil" =>
         /\ pin.parts[1][1] = "-" => pout.e.Type = EntryTypeFile
         /\ pin.parts[1][1] = "d" => pout.e.Type = EntryTypeFolder
         /\ pin.parts[1][1] = "l" => pout.e.Type = EntryTypeLink
         /\ pout.e.Name = Join(SubSeq(pin.parts, 9, Len(pin.parts)), <<" ">>)
         /\ pout.e.Type = EntryTypeFile =>
              \A r \in {ParseUint0(pin.parts[5])} : r.ok /\ pout.e.Size = r.val
         /\ (pout.e.Type = EntryTypeFile /\ pin.parts[5] = <<"1", "2">>) => pout.e.Size = 12

\* parseLsListLine has returned a link whose name has two tokens.
C25_LinkWithLongName ==
  /\ ParseApplied("parseLsListLine") /\ GenericLs
  /\ pin.parts[1] = <<"l", "r", "w">> /\ Len(pin.parts) = 10
  /\ pout.err = "nil"
  /\ pout.e.Type = EntryTypeLink /\ pout.e.Name = <<"a", " ", "b">>

\* A token of decimal digits only.
IsDecimal(tok) == tok /= <<>> /\ \A i \in 1..Len(tok) : tok[i] \in Digit

\* C28: given a third field without a colon, setTime returns no error only
\* when that field is a year of four digits; for every such year, a month and
\* a day of that month it sets the time to 00:00 UTC of that day in that year;
\* and a third field of another length than four is an error.
C28_YearOfFourDigits ==
  (ParseApplied("setTime") /\ ~Contains(pin.parts[3], <<":">>)) =>
    /\ pout.err = "nil" => (Len(pin.parts[3]) = 4 /\ IsDecimal(pin.parts[3]))
    /\ (Len(pin.parts[3]) = 4 /\ IsDecimal(pin.parts[3]) /\ pin.parts[2] = <<"1">>) =>
         /\ pout.err = "nil"
         /\ pout.e.Time = Date(DecimalValue(pin.parts[3]),
                               IF pin.parts[1] = <<"J", "a", "n">> THEN 1 ELSE 2, 1, 0, 0, 0, 0)
    /\ Len(pin.parts[3]) /= 4 => pout.err /= "nil"

\* setTime was given the year 1950 and has set the year 2050.
C28_Year1950Read2050 ==
  /\ ParseApplied("setTime")
  /\ pin.parts = <<<<"J", "a", "n">>, <<"1">>, <<"1", "9", "5", "0">>>>
  /\ pout.err = "nil"
  /\ pout.e.Time = Date(2050, 1, 1, 0, 0, 0, 0)

\* C29: the size of a file that parseLsListLine or parseDirListLine accepts is
\* the value of the size token, which is a token of decimal digits, read in
\* decimal; and parseRFC3659ListLine returns no entry of size 0 for a line
\* with the fact size=x.
C29_SizeIsDecimal ==
  /\ ( /\ ParseApplied("parseLsListLine") /\ pin.kind = "ls" /\ Len(pin.parts) >= 8
       /\ pout.err = "nil" /\ pout.e.Type = EntryTypeFile ) =>
       \A tok \in {IF pin.parts[2] = <<"0">> THEN pin.parts[3] ELSE pin.parts[5]} :
         IsDecimal(tok) /\ pout.e.Size = DecimalValue(tok)
  /\ ( /\ ParseApplied("parseDirListLine") /\ pin.kind = "dir"
       /\ pout.err = "nil" /\ pout.e.Type = EntryTypeFile ) =>
       \A tok \in {Fields(pin.parts[2])[1]} :
         IsDecimal(tok) /\ pout.e.Size = DecimalValue(tok)
  /\ ( /\ ParseApplied("parseRFC3659ListLine") /\ pin.kind = "rfc"
       /\ \E i \in 1..Len(pin.parts) : pin.parts[i] = <<"s", "i", "z", "e", "=", "x">> ) =>
       ~(pout.err = "nil" /\ pout.e.Size = 0)

\* parseLsListLine has read the size token "010" as 8.
C29_OctalSize ==
  /\ ParseApplied("parseLsListLine") /\ GenericLs
  /\ pin.parts[1] = <<"-", "r", "w">> /\ pin.parts[5] = <<"0", "1", "0">>
  /\ pout.err = "nil" /\ pout.e.Size = 8

\* es are the entries the parser parseFunc makes of the lines ls it accepts,
\* in the order of the lines.
RECURSIVE ListedFrom(_, _, _)
ListedFrom(ls, es, parseFunc) ==
  IF ls = <<>> THEN es = <<>>
  ELSE \E y \in ThisYears :
         \E r \in {List_parse(parseFunc, ls[1], y)} :
           IF r.err = "nil"
           THEN es /= <<>> /\ es[1] = r.e /\ ListedFrom(Tail(ls), Tail(es), parseFunc)
           ELSE ListedFrom(Tail(ls), es, parseFunc)

\* The operation reads, or has read, the lines of its data connection.
Scanning == pc \in {"scan", "close", "returned"} /\ lines /= <<>>

\* C21: whatever lines NameList has received, its entries are these lines in
\* their order; the entries of List are the entries its parser makes of the
\* received lines it accepts, in their order, and a line the parser rejects
\* is no error of List: after the end of the data List returns no error.
C21_LinesInOrder ==
  /\ (op = "NameList" /\ Scanning) => entries = lines
  /\ (op = "List" /\ Scanning) =>
       /\ ListedFrom(lines, entries, IF mlst THEN "parseRFC3659ListLine"
                                     ELSE "parseListLine")
       /\ (pc = "returned" /\ \E i \in 1..Len(log) : log[i].k = "DEOF") => ~ret.err

\* List has returned, without an error, the entry of the second of two lines,
\* of which its parser rejected the first.
C21_RejectedLineOmitted ==
  /\ op = "List" /\ pc = "returned" /\ ~ret.err
  /\ lines = <<<<"x">>, <<"s", "i", "z", "e", "=", "1", ";", " ", "a">>>>
  /\ Len(entries) = 1 /\ entries[1].Name = <<"a">> /\ entries[1].Size = 1

\* The lines of the listing in the formats of ls and of DIR.
LegacyLines == {<<"-", "r", " ", "1", " ", "u", " ", "g", " ", "2", " ", "J", "a", "n", " ", "1", " ", "2", "0", "2", "0", " ", "b">>, <<"0", "1", "-", "0", "1", "-", "2", "0", " ", " ", "1", "0", ":", "0", "0", "A", "M", " ", "<", "D", "I", "R", ">", " ", "c">>}

C31_CompletionReadOnce ==
  (op = "response.Close" /\ pc = "returned" /\ stream.closes > 1) =>
    Positions(log, ReadKinds) = {}

\* The second Close of a stream has returned: the data connection was closed
\* already, and Close has read one more reply, 226, from the control connection.
C31_SecondCloseReads ==
  /\ op = "response.Close" /\ pc = "returned" /\ stream.closes = 2
  /\ conn = "open"
  /\ log = <<DataClose, Ev("R", "", StatusClosingDataConnection)>>
  /\ ret.err /\ ret.why = "close"

\* The events of cmdDataConnFrom in l: those from its first passive-mode
\* command on (openDataConn begins with EPSV or with PASV).
CmdDataConnEvents(l) ==
  LET first == {i \in Positions(l, WriteKinds) : l[i].c \in {"EPSV", "PASV"}}
  IN  IF first = {} THEN <<>>
      ELSE SubSeq(l, CHOOSE i \in first : \A j \in first : i <= j, Len(l))

\* The events of l on the control connection.
IsControlEvent(e) == e.k \in WriteKinds \cup ReadKinds
ControlEvents(l) == SelectSeq(l, IsControlEvent)

\* Strict request and response on the control events c: a command written is
\* followed at once by one read of a reply, a reply is read only for the
\* command written just before it, and nothing follows a write that failed.
InSync(c) ==
  \A i \in 1..Len(c) :
    /\ c[i].k = "W" => i < Len(c) /\ c[i + 1].k \in ReadKinds
    /\ c[i].k \in ReadKinds => i > 1 /\ c[i - 1].k = "W"
    /\ c[i].k = "WERR" => i = Len(c)

\* As many reads of a reply as commands written.
Balanced(c) ==
  Cardinality(Positions(c, ReadKinds)) = Cardinality(Positions(c, {"W"}))

\* No control reply is read after the close of the data connection.
NoReadAfterClose(l) ==
  \A i, j \in 1..Len(l) : (i < j /\ l[i] = DataClose) => l[j].k \notin ReadKinds

\* The steps of cmdDataConnFrom, and the step with which it returns.
CmdDataConnSteps == {"open", "rest", "command"}
CmdDataConnReturns ==
  /\ pc \in CmdDataConnSteps
  /\ pc' \notin CmdDataConnSteps \cup {"panic"}

\* What holds of the events ev of a cmdDataConnFrom that returned, with an
\* error (failed) or with the data connection.
SyncedAtReturn(ev, failed) ==
  /\ ev /= <<>>
  /\ InSync(ControlEvents(ev))
  /\ Balanced(ControlEvents(ev))
  /\ NoReadAfterClose(ev)
  /\ failed => Cardinality(Positions(ev, {"DCLOSE"})) <= 1
  /\ ~failed => Positions(ev, {"DCLOSE"}) = {}

\* C32: whenever cmdDataConnFrom returns, with the data connection or with an
\* error (of EPSV or PASV, of the dial, of REST, of the command), it has read
\* one reply for each command it wrote and none besides, each right after its
\* command; when it returns an error it has read no reply after the close of
\* the data connection.
C32_CmdDataConnInSync ==
  [][CmdDataConnReturns =>
       SyncedAtReturn(CmdDataConnEvents(log'),
                      pc' = "returned" /\ ret'.err)]_vars

\* RetrFrom has returned the error of a REST the server refused: EPSV and its
\* reply, the dial, REST and its reply, and the close of the data connection.
C32_RestRefusedInSync ==
  /\ op = "RetrFrom" /\ pc = "returned" /\ ret.err /\ ret.why = "REST"
  /\ Len(log) = 6
  /\ log[1] = Ev("W", "EPSV", 0)
  /\ log[2] = Ev("R", "", StatusExtendedPassiveMode)
  /\ log[3].k = "DIAL"
  /\ log[4] = Ev("W", "REST", 0)
  /\ log[5].k = "R" /\ log[5].n \in OtherCodes
  /\ log[6] = DataClose

====
